---------------------------- MODULE Spec2Model ----------------------------
(***************************************************************************)
(* A model of metalsmith-search: the anchor id generator, the heading      *)
(* extractor of the HTML-first content extractor, the index builder and    *)
(* the two plugin pipelines (the synchronous HTML-first one and the        *)
(* batched markdown/component one).                                        *)
(*                                                                         *)
(* Strings are modelled as sequences of one-character strings, so that     *)
(* the regular-expression steps of the code can be computed character by   *)
(* character.                                                              *)
(***************************************************************************)
EXTENDS Integers, Sequences, FiniteSets, TLC

VARIABLES
  \* generateAnchorId(text, options)
  aText, aOpts, aOut,
  \* extractSearchableContent of the HTML-first extractor, on one file
  contents, dom, usedIds, headings, hIdx, hpc, entry,
  \* createSearchIndex(searchEntries, options)
  ixInput, ixOut,
  \* the plugin function
  pipeline, files, pc, filesToProcess, pos, queue, remaining,
  searchEntries, allSearchEntries, indexWrites, indexFile, doneCalls, finished,
  \* one call of a text utility: the function and its arguments, and its result
  uCall, uOut, uPc

anchorVars == <<aText, aOpts, aOut>>
headingVars == <<contents, dom, usedIds, headings, hIdx, hpc, entry>>
indexVars == <<ixInput, ixOut>>
pluginVars == <<pipeline, files, pc, filesToProcess, pos, queue, remaining,
                searchEntries, allSearchEntries, indexWrites, indexFile, doneCalls,
                finished>>
utilVars == <<uCall, uOut, uPc>>
vars == <<anchorVars, headingVars, indexVars, pluginVars, utilVars>>

(***************************************************************************)
(* Bounds of the model.                                                    *)
(***************************************************************************)
MaxTextLen == 3
MaxHeadings == 3
MaxEntries == 3
MaxFiles == 3
MaxMarkupLen == 3
MaxBlocks == 3
MaxSentences == 2
MaxContentLen == 6
MaxChunkSize == 4
MaxDepth == 3
MaxPlainLen == 4
MaxLines == 4
MaxSiteFiles == 2
MaxNodes == 2
MaxSections == 2

(***************************************************************************)
(* Characters and character classes of the regular expressions.            *)
(***************************************************************************)
Chars == {"a", "A", "1", " ", "-", "_", "!", "<", ">"}
Whitespace == {" ", "\n"}
Digits == {"0", "1", "2", "3", "4", "5", "6", "7", "8", "9"}
WordChars == {"a", "A", "s", "e", "c", "t", "i", "o", "n", "p", "x", "_"} \cup Digits

Section == <<"s", "e", "c", "t", "i", "o", "n">>

RECURSIVE StringsUpTo(_)
StringsUpTo(n) ==
  IF n = 0 THEN {<<>>}
  ELSE LET shorter == StringsUpTo(n - 1)
       IN shorter \cup {Append(s, c) : s \in {t \in shorter : Len(t) = n - 1}, c \in Chars}

\* the pieces lo..hi of a sequence of strings, put together
RECURSIVE ConcatRange(_, _, _)
ConcatRange(pieces, lo, hi) ==
  IF lo > hi THEN <<>>
  ELSE IF lo = hi THEN pieces[lo]
  ELSE LET mid == (lo + hi) \div 2
       IN ConcatRange(pieces, lo, mid) \o ConcatRange(pieces, mid + 1, hi)

Filter(s, keep) == SelectSeq(s, LAMBDA c : c \in keep)

Remove(s, drop) == SelectSeq(s, LAMBDA c : c \notin drop)

\* s.replace(/[cls]+/g, rep): every maximal run of characters of cls becomes rep
ReplaceRuns(s, cls, rep) ==
  LET piece(i) == IF s[i] \notin cls THEN <<s[i]>>
                  ELSE IF i < Len(s) /\ s[i + 1] \in cls THEN <<>>
                  ELSE rep
  IN ConcatRange([i \in 1..Len(s) |-> piece(i)], 1, Len(s))

RECURSIVE TrimLeft(_, _)
TrimLeft(s, cls) ==
  IF s # <<>> /\ Head(s) \in cls THEN TrimLeft(Tail(s), cls) ELSE s

RECURSIVE TrimRight(_, _)
TrimRight(s, cls) ==
  IF s # <<>> /\ s[Len(s)] \in cls THEN TrimRight(SubSeq(s, 1, Len(s) - 1), cls) ELSE s

\* String.prototype.trim
Trim(s) == TrimRight(TrimLeft(s, Whitespace), Whitespace)

\* String.prototype.substring(0, n)
Substring0(s, n) == SubSeq(s, 1, IF n < Len(s) THEN n ELSE Len(s))

ToLowerCase(s) == [i \in 1..Len(s) |-> IF s[i] = "A" THEN "a" ELSE s[i]]

\* s.replace(/<[^>]+>/g, ''): a match runs from a "<" to the first ">" after
\* it, with at least one character between; a character is removed when it
\* lies in a match
RemoveTags(s) ==
  LET opens == {p \in 1..Len(s) : s[p] = "<"}
      closes == {j \in 1..Len(s) : s[j] = ">"}
      FirstClose(p) == IF \E j \in closes : j > p
                       THEN CHOOSE j \in closes : j > p /\ \A k \in closes : k > p => j <= k
                       ELSE 0
      removed(i) == \E p \in opens : p <= i /\ FirstClose(p) >= p + 2 /\ i <= FirstClose(p)
  IN ConcatRange([i \in 1..Len(s) |-> IF removed(i) THEN <<>> ELSE <<s[i]>>], 1, Len(s))

(***************************************************************************)
(* The anchor id generator.                                                *)
(***************************************************************************)
\* a JavaScript value passed as text: a string, or null, undefined, a number
NullVal == [t |-> "null", v |-> <<>>]
StrVal(s) == [t |-> "string", v |-> s]
NonStrings == {[t |-> k, v |-> <<>>] : k \in {"null", "undefined", "number"}}

isValidTextInput(text) == text.t = "string" /\ text.v # <<>>

cleanTextForAnchor(text, separator) ==
  LET lower == ToLowerCase(text)
      noTags == RemoveTags(lower)
      noSpecial == Filter(noTags, WordChars \cup Whitespace \cup {"-"})
      separated == ReplaceRuns(noSpecial, Whitespace \cup {"_"}, separator)
      collapsed == ReplaceRuns(separated, {separator[1]}, separator)
  IN TrimRight(TrimLeft(collapsed, {separator[1]}), {separator[1]})

processNumbers(text, allowNumbers) ==
  IF allowNumbers THEN text ELSE Remove(text, Digits)

\* a variant that cuts the text and leaves a separator at its end
truncateTextKeepingSeparator(text, maxLength, separator) ==
  IF Len(text) <= maxLength THEN text ELSE Substring0(text, maxLength)

truncateText(text, maxLength, separator) ==
  IF Len(text) <= maxLength THEN text
  ELSE TrimRight(Substring0(text, maxLength), {separator[1]})

addPrefix(anchor, prefix, separator) ==
  IF prefix # <<>> THEN prefix \o separator \o anchor ELSE anchor

addSuffix(anchor, suffix, separator) ==
  IF suffix # <<>> THEN anchor \o separator \o suffix ELSE anchor

ensureValidAnchor(anchor) ==
  IF anchor # <<>> THEN anchor ELSE Section

DefaultMaxLength == 50

DefaultAnchorOptions ==
  [maxLength |-> DefaultMaxLength, prefix |-> <<>>, suffix |-> <<>>,
   allowNumbers |-> TRUE, separator |-> <<"-">>]

generateAnchorId(text, options) ==
  IF ~isValidTextInput(text) THEN Section
  ELSE LET a1 == cleanTextForAnchor(text.v, options.separator)
           a2 == processNumbers(a1, options.allowNumbers)
           a3 == truncateText(a2, options.maxLength, options.separator)
           a4 == addPrefix(a3, options.prefix, options.separator)
           a5 == addSuffix(a4, options.suffix, options.separator)
       IN ensureValidAnchor(a5)

\* the option objects the model passes: the defaults overridden field by field
AnchorOptions ==
  [maxLength : {2, DefaultMaxLength}, prefix : {<<>>, <<"p">>, <<" ">>},
   suffix : {<<>>, <<"x">>, <<" ">>}, allowNumbers : BOOLEAN,
   separator : {<<"-">>, <<"_">>, <<" ">>}]

AnchorTexts == {StrVal(s) : s \in StringsUpTo(MaxTextLen)} \cup NonStrings

NotCalled == [t |-> "none", v |-> <<>>]

AnchorInit ==
  /\ aText \in AnchorTexts
  /\ aOpts \in AnchorOptions
  /\ aOut = NotCalled

AnchorIdle ==
  /\ aText = NotCalled
  /\ aOpts = DefaultAnchorOptions
  /\ aOut = NotCalled

GenerateAnchor ==
  /\ aOut = NotCalled
  /\ aOut' = StrVal(generateAnchorId(aText, aOpts))
  /\ UNCHANGED <<aText, aOpts>>
  /\ UNCHANGED <<headingVars, indexVars, pluginVars, utilVars>>


(***************************************************************************)
(* The heading extractor of the HTML-first content extractor, run on one   *)
(* file.  The markup of a file is modelled by the sequence of its heading  *)
(* elements in document order; an element is its tag name, its id          *)
(* attribute and its text.  An absent id attribute and an empty one are    *)
(* both NoId: the code tests the attribute with !id.                       *)
(***************************************************************************)
NoId == <<>>

HeadingLevels == {"h2"}
HeadingIds == {NoId, <<"a">>, <<"a", "-", "1">>}
HeadingTexts == {<<"a">>, <<"A">>, <<"a", " ", "1">>, <<" ">>, <<"!">>}
HeadingElements == [level : HeadingLevels, id : HeadingIds, text : HeadingTexts]

RECURSIVE SeqsUpTo(_, _)
SeqsUpTo(S, n) ==
  IF n = 0 THEN {<<>>}
  ELSE LET shorter == SeqsUpTo(S, n - 1)
       IN shorter \cup {Append(s, x) : s \in {t \in shorter : Len(t) = n - 1}, x \in S}

\* String(n) for a natural number
RECURSIVE NumberToString(_)
NumberToString(n) ==
  LET digit == CHOOSE d \in Digits : d = ToString(n % 10)
  IN IF n < 10 THEN <<digit>> ELSE Append(NumberToString(n \div 10), digit)

\* the while loop: id, id-1, id-2, ... until one is not in usedIds
RECURSIVE nextFreeId(_, _, _, _)
nextFreeId(id, uniqueId, counter, used) ==
  IF uniqueId \in used
  THEN nextFreeId(id, id \o <<"-">> \o NumberToString(counter), counter + 1, used)
  ELSE uniqueId

\* a variant whose counter starts at 2
uniqueHeadingIdFromTwo(id, used) == nextFreeId(id, id, 2, used)

uniqueHeadingId(id, used) == nextFreeId(id, id, 1, used)

\* a variant that generates an id for every heading, with an id or not
headingIdAlwaysGenerated(el, title, used) ==
  uniqueHeadingId(generateAnchorId(StrVal(title), DefaultAnchorOptions), used)

\* the id of a heading element with a non-empty title
headingId(el, title, used) ==
  IF el.id # NoId THEN el.id
  ELSE uniqueHeadingId(generateAnchorId(StrVal(title), DefaultAnchorOptions), used)

NoEntry == [made |-> FALSE, headings |-> <<>>]

HeadingInit ==
  /\ contents \in SeqsUpTo(HeadingElements, MaxHeadings)
  /\ dom = <<>>
  /\ usedIds = {}
  /\ headings = <<>>
  /\ hIdx = 0
  /\ hpc = "start"
  /\ entry = NoEntry

HeadingIdle ==
  /\ contents = <<>>
  /\ dom = <<>>
  /\ usedIds = {}
  /\ headings = <<>>
  /\ hIdx = 0
  /\ hpc = "idle"
  /\ entry = NoEntry

\* cheerio.load(html): the tree starts as the markup of the file
LoadHtml ==
  /\ hpc = "start"
  /\ dom' = contents
  /\ hIdx' = 1
  /\ hpc' = "headings"
  /\ UNCHANGED <<contents, usedIds, headings, entry>>
  /\ UNCHANGED <<anchorVars, indexVars, pluginVars, utilVars>>

\* one call of the callback of $('h1, ..., h6').each
ProcessHeading ==
  /\ hpc = "headings"
  /\ hIdx <= Len(dom)
  /\ LET el == dom[hIdx]
         title == Trim(el.text)
     IN IF title = <<>>
        THEN UNCHANGED <<dom, usedIds, headings>>
        ELSE LET id == headingId(el, title, usedIds)
             IN /\ dom' = [dom EXCEPT ![hIdx].id = id]
                /\ usedIds' = usedIds \cup {id}
                /\ headings' = Append(headings, [level |-> el.level, id |-> id, title |-> title])
  /\ hIdx' = hIdx + 1
  /\ UNCHANGED <<contents, hpc, entry>>
  /\ UNCHANGED <<anchorVars, indexVars, pluginVars, utilVars>>

\* $.text(): the text of the tree, here the texts of its headings
RECURSIVE TreeText(_)
TreeText(d) ==
  IF d = <<>> THEN <<>> ELSE Head(d).text \o TreeText(Tail(d))

\* the rest of extractSearchableContent: no entry when the page has no text
FinishExtraction ==
  /\ hpc = "headings"
  /\ hIdx > Len(dom)
  /\ entry' = IF Trim(TreeText(dom)) = <<>> THEN NoEntry
              ELSE [made |-> TRUE, headings |-> headings]
  /\ hpc' = "done"
  /\ UNCHANGED <<contents, dom, usedIds, headings, hIdx>>
  /\ UNCHANGED <<anchorVars, indexVars, pluginVars, utilVars>>


(***************************************************************************)
(* The page entry of the HTML-first extractor: what extractSearchableContent*)
(* makes of the file name and of the text of the page.  A file name is a   *)
(* sequence of tokens: a path segment, "/" or ".html".                     *)
(***************************************************************************)
ExcerptThreshold == 300
ExcerptLength == 250

\* a variant without the handling of index files
pageUrlKeepsIndex(filename) ==
  LET n == Len(filename)
      base == IF n > 0 /\ filename[n] = ".html" THEN SubSeq(filename, 1, n - 1) ELSE filename
  IN IF base # <<>> /\ Head(base) = "/" THEN base ELSE <<"/">> \o base

\* filename.replace(/\.html$/, '') and the handling of index files
pageUrl(filename) ==
  LET n == Len(filename)
      base == IF n > 0 /\ filename[n] = ".html" THEN SubSeq(filename, 1, n - 1) ELSE filename
      m == Len(base)
      isIndex == base = <<"index">> \/ (m >= 2 /\ base[m] = "index" /\ base[m - 1] = "/")
      cut == IF m >= 2 /\ base[m - 1] = "/" THEN SubSeq(base, 1, m - 2)
             ELSE SubSeq(base, 1, m - 1)
      baseUrl == IF isIndex THEN (IF cut = <<>> THEN <<"/">> ELSE cut) ELSE base
  IN IF baseUrl # <<>> /\ Head(baseUrl) = "/" THEN baseUrl ELSE <<"/">> \o baseUrl

\* the URL of the markdown/component extractor:
\* filename.replace(/\.md$|\.html$/, '').replace(/\/index$/, '') || '/'
componentUrl(filename) ==
  LET n == Len(filename)
      base == IF n > 0 /\ filename[n] \in {".md", ".html"}
              THEN SubSeq(filename, 1, n - 1) ELSE filename
      m == Len(base)
      cut == IF m >= 2 /\ base[m] = "index" /\ base[m - 1] = "/"
             THEN SubSeq(base, 1, m - 2) ELSE base
      baseUrl == IF cut = <<>> THEN <<"/">> ELSE cut
  IN IF Head(baseUrl) = "/" THEN baseUrl ELSE <<"/">> \o baseUrl

\* text.replace(/\s+\S*$/, ''): the last run of white space and what follows it
dropLastWord(text) ==
  LET ws == {i \in 1..Len(text) : text[i] \in Whitespace}
  IN IF ws = {} THEN text
     ELSE LET last == CHOOSE i \in ws : \A k \in ws : k <= i
              start == CHOOSE i \in ws :
                         /\ \A k \in i..last : k \in ws
                         /\ (i = 1 \/ (i - 1) \notin ws)
          IN SubSeq(text, 1, start - 1)

\* a variant that does not cut the text before it drops the last word
excerptWithoutSubstring(mainText) ==
  IF Len(mainText) > ExcerptThreshold
  THEN dropLastWord(mainText) \o <<".", ".", ".">>
  ELSE mainText

excerptOf(mainText) ==
  IF Len(mainText) > ExcerptThreshold
  THEN dropLastWord(Substring0(mainText, ExcerptLength)) \o <<".", ".", ".">>
  ELSE mainText

\* mainText.split(/\s+/).filter(Boolean).length
wordCount(text) ==
  Cardinality({i \in 1..Len(text) :
                 text[i] \notin Whitespace /\ (i = 1 \/ text[i - 1] \in Whitespace)})

NoPage == [made |-> FALSE]

\* the entry made from the file name and the text of the tree
pageEntry(filename, text) ==
  LET cleanUrl == pageUrl(filename)
      mainText == Trim(text)
  IN IF mainText = <<>> THEN NoPage
     ELSE [made |-> TRUE, id |-> <<"page:">> \o cleanUrl, type |-> "page", url |-> cleanUrl,
           content |-> mainText, excerpt |-> excerptOf(mainText),
           wordCount |-> wordCount(mainText)]

\* the text that a sequence of runs, each a character and a length, stands for
Repeat(c, n) == [i \in 1..n |-> c]

RECURSIVE TextOf(_)
TextOf(runs) ==
  IF runs = <<>> THEN <<>> ELSE Repeat(Head(runs).c, Head(runs).n) \o TextOf(Tail(runs))

ExtractPage ==
  /\ uPc = "called"
  /\ uCall.fn = "extractSearchableContent"
  /\ uOut' = pageEntry(uCall.filename, TextOf(uCall.text))
  /\ uPc' = "returned"
  /\ UNCHANGED uCall
  /\ UNCHANGED <<anchorVars, headingVars, indexVars, pluginVars>>

(***************************************************************************)
(* The content segmenter of the markdown/component extractor:              *)
(* splitLongContent, splitContentBySections and extractTraditionalSections.*)
(* The contents modelled hold no heading line, so that the split by        *)
(* headings leaves the content as its single part.                         *)
(***************************************************************************)
SectionSplitLength == 2000
SectionChunkLength == 1500
SectionMinLength == 50

SentenceEnds == {".", "!", "?"}

\* the first position at or after i that holds no white space
FirstAfterRun(content, i) ==
  CHOOSE j \in i..(Len(content) + 1) :
    /\ j = Len(content) + 1 \/ content[j] \notin Whitespace
    /\ \A k \in i..(j - 1) : content[k] \in Whitespace

\* the pieces of content from position from on, cut at the separators that
\* start at the positions seps
RECURSIVE piecesFrom(_, _, _)
piecesFrom(content, from, seps) ==
  LET next == {i \in seps : i >= from}
  IN IF next = {} THEN <<SubSeq(content, from, Len(content))>>
     ELSE LET i == CHOOSE m \in next : \A n \in next : m <= n
          IN <<SubSeq(content, from, i - 1)>>
               \o piecesFrom(content, FirstAfterRun(content, i), seps)

\* a variant that splits at every run of white space
splitAtEverySpace(content) ==
  piecesFrom(content, 1,
             {i \in 1..Len(content) :
                content[i] \in Whitespace /\ (i = 1 \/ content[i - 1] \notin Whitespace)})

\* content.split(/(?<=[.!?])\s+/)
splitSentences(content) ==
  piecesFrom(content, 1,
             {i \in 2..Len(content) :
                content[i] \in Whitespace /\ content[i - 1] \in SentenceEnds})

\* the loop over the sentences and the push of the last chunk
RECURSIVE chunkLoop(_, _, _, _)
chunkLoop(sentences, chunks, currentChunk, maxLength) ==
  IF sentences = <<>>
  THEN IF Trim(currentChunk) # <<>> THEN Append(chunks, Trim(currentChunk)) ELSE chunks
  ELSE LET sentence == Head(sentences)
       IN IF Len(currentChunk) + Len(sentence) > maxLength /\ Len(currentChunk) > 0
          THEN chunkLoop(Tail(sentences), Append(chunks, Trim(currentChunk)), sentence, maxLength)
          ELSE chunkLoop(Tail(sentences), chunks,
                         currentChunk \o (IF currentChunk # <<>> THEN <<" ">> ELSE <<>>) \o sentence,
                         maxLength)

splitLongContent(content, maxLength) ==
  chunkLoop(splitSentences(content), <<>>, <<>>, maxLength)

\* the sections of a content without heading lines (heading: null for each)
\* the positions of text where headingRegex matches: the start of a line
\* that holds one to six '#', white space and a title (markdown headings)
HeadingStartsOf(text) ==
  {p \in 1..Len(text) :
     /\ p = 1 \/ text[p - 1] = "\n"
     /\ \E n \in 1..6 :
          /\ p + n + 1 <= Len(text)
          /\ \A k \in 0..(n - 1) : text[p + k] = "#"
          /\ text[p + n] = " "
          /\ text[p + n + 1] \notin Whitespace}

\* the last position of the line of text that holds position p
LineEnd(text, p) ==
  LET ends == {q \in p..Len(text) : text[q] = "\n"}
  IN IF ends = {} THEN Len(text) ELSE (CHOOSE q \in ends : \A r \in ends : q <= r) - 1

\* content.split(headingRegex): the text before each match, then the match
RECURSIVE splitByHeadings(_, _, _)
splitByHeadings(content, from, starts) ==
  LET later == {p \in starts : p >= from}
  IN IF later = {} THEN <<SubSeq(content, from, Len(content))>>
     ELSE LET h == CHOOSE p \in later : \A q \in later : p <= q
              e == LineEnd(content, h)
          IN <<SubSeq(content, from, h - 1), SubSeq(content, h, e)>>
               \o splitByHeadings(content, e + 1, starts)

\* headingRegex.test(part) of a regular expression with the g flag: the search
\* starts at lastIndex, which becomes the end of the match, or 0 when none
headingRegexTest(part, lastIndex) ==
  LET found == {p \in HeadingStartsOf(part) : p - 1 >= lastIndex}
  IN IF found = {} THEN [matched |-> FALSE, lastIndex |-> 0]
     ELSE [matched |-> TRUE,
           lastIndex |-> LineEnd(part, CHOOSE p \in found : \A q \in found : p <= q)]

\* part.replace(/^#+\s*/, '').replace(/<\/?h[1-6][^>]*>/gi, '').trim()
headingTitle(part) == Trim(TrimLeft(TrimLeft(part, {"#"}), Whitespace))

PartLabel(index) == <<" ", "(", "P", "a", "r", "t", " ">> \o NumberToString(index + 1) \o <<")">>

\* the sections pushed for one part that is content
sectionsOfPart(part, currentHeading) ==
  LET content == Trim(part)
  IN IF Len(content) > SectionSplitLength
     THEN LET chunks == splitLongContent(content, SectionChunkLength)
          IN [index \in 1..Len(chunks) |->
                [heading |-> IF currentHeading # NullVal
                             THEN StrVal(currentHeading.v \o PartLabel(index - 1))
                             ELSE NullVal,
                 content |-> chunks[index]]]
     ELSE <<[heading |-> currentHeading, content |-> content]>>

\* the loop of splitContentBySections over parts i..Len(parts)
RECURSIVE sectionsLoop(_, _, _, _)
sectionsLoop(parts, i, currentHeading, lastIndex) ==
  IF i > Len(parts) THEN <<>>
  ELSE IF Trim(parts[i]) = <<>> THEN sectionsLoop(parts, i + 1, currentHeading, lastIndex)
  ELSE LET test == headingRegexTest(parts[i], lastIndex)
       IN IF test.matched
          THEN sectionsLoop(parts, i + 1, StrVal(headingTitle(parts[i])), test.lastIndex)
          ELSE sectionsOfPart(parts[i], currentHeading)
                 \o sectionsLoop(parts, i + 1, NullVal, test.lastIndex)

splitContentBySections(content) ==
  sectionsLoop(splitByHeadings(content, 1, HeadingStartsOf(content)), 1, NullVal, 0)

\* the entries of extractTraditionalSections, options.stripHtml being false;
\* options is passed as the code passes it
extractTraditionalSections(content, options) ==
  LET split == splitContentBySections(content)
      sections == [i \in 1..Len(split) |-> split[i].content]
      kept == SelectSeq([i \in 1..Len(sections) |-> [content |-> Trim(sections[i]), sectionIndex |-> i - 1]],
                        LAMBDA e : Len(e.content) >= SectionMinLength)
  IN [sections |-> sections, entries |-> kept]

\* the content that a sequence of lines stands for
RECURSIVE JoinLines(_)
JoinLines(lines) ==
  IF lines = <<>> THEN <<>>
  ELSE IF Len(lines) = 1 THEN Head(lines)
  ELSE Head(lines) \o <<"\n">> \o JoinLines(Tail(lines))

SplitContentBySections ==
  /\ uPc = "called"
  /\ uCall.fn = "splitContentBySections"
  /\ uOut' = splitContentBySections(JoinLines(uCall.lines))
  /\ uPc' = "returned"
  /\ UNCHANGED uCall
  /\ UNCHANGED <<anchorVars, headingVars, indexVars, pluginVars>>

SplitLongContent ==
  /\ uPc = "called"
  /\ uCall.fn = "splitLongContent"
  /\ uOut' = splitLongContent(uCall.content, uCall.maxLength)
  /\ uPc' = "returned"
  /\ UNCHANGED uCall
  /\ UNCHANGED <<anchorVars, headingVars, indexVars, pluginVars>>

\* the content that a sequence of sentence lengths stands for: each sentence a
\* run of letters closed by a full stop, with a space between two sentences
RECURSIVE contentOf(_)
contentOf(lens) ==
  IF lens = <<>> THEN <<>>
  ELSE LET sentence == Repeat("a", Head(lens) - 1) \o <<".">>
       IN IF Len(lens) = 1 THEN sentence
          ELSE sentence \o <<" ">> \o contentOf(Tail(lens))

ExtractTraditionalSections ==
  /\ uPc = "called"
  /\ uCall.fn = "extractTraditionalSections"
  /\ uOut' = extractTraditionalSections(contentOf(uCall.sentences), uCall.options)
  /\ uPc' = "returned"
  /\ UNCHANGED uCall
  /\ UNCHANGED <<anchorVars, headingVars, indexVars, pluginVars>>

(***************************************************************************)
(* findNestedField.  A JavaScript value is a record with its type t and    *)
(* its value v: the characters of a string, the items of an array, and for *)
(* an object its own enumerable properties in their order, each a key      *)
(* with a value.                                                           *)
(***************************************************************************)
ObjVal(props) == [t |-> "object", v |-> props]
Prop(k, val) == [key |-> k, value |-> val]

\* typeof x === 'object' && x !== null
IsObjectType(x) == x.t \in {"object", "array"}

\* obj[targetField]: the value of the property, undefined when there is none
\* (an array has no property of the names modelled)
getProperty(obj, targetField) ==
  IF obj.t = "object" /\ \E i \in 1..Len(obj.v) : obj.v[i].key = targetField
  THEN obj.v[CHOOSE i \in 1..Len(obj.v) : obj.v[i].key = targetField].value
  ELSE [t |-> "undefined", v |-> <<>>]

\* the values that for (const key in obj) runs through
ownValues(obj) ==
  IF obj.t = "object" THEN [i \in 1..Len(obj.v) |-> obj.v[i].value] ELSE obj.v

RECURSIVE findNestedFieldThroughArrays(_, _)
RECURSIVE searchValuesThroughArrays(_, _)
\* a variant of the loop that also searches the arrays
searchValuesThroughArrays(values, targetField) ==
  IF values = <<>> THEN NullVal
  ELSE LET result == IF IsObjectType(Head(values))
                     THEN findNestedFieldThroughArrays(Head(values), targetField)
                     ELSE NullVal
       IN IF result # NullVal THEN result
          ELSE searchValuesThroughArrays(Tail(values), targetField)

findNestedFieldThroughArrays(obj, targetField) ==
  IF ~IsObjectType(obj) THEN NullVal
  ELSE LET direct == getProperty(obj, targetField)
       IN IF direct.t = "string" /\ direct.v # <<>> THEN direct
          ELSE searchValuesThroughArrays(ownValues(obj), targetField)

RECURSIVE findNestedField(_, _)
RECURSIVE searchValues(_, _)
\* the loop over the properties of obj, from the first of values on
searchValues(values, targetField) ==
  IF values = <<>> THEN NullVal
  ELSE LET result == IF IsObjectType(Head(values)) /\ Head(values).t # "array"
                     THEN findNestedField(Head(values), targetField)
                     ELSE NullVal
       IN IF result # NullVal THEN result
          ELSE searchValues(Tail(values), targetField)

findNestedField(obj, targetField) ==
  IF ~IsObjectType(obj) THEN NullVal
  ELSE LET direct == getProperty(obj, targetField)
       IN IF direct.t = "string" /\ direct.v # <<>> THEN direct
          ELSE searchValues(ownValues(obj), targetField)

FindNestedField ==
  /\ uPc = "called"
  /\ uCall.fn = "findNestedField"
  /\ uOut' = findNestedField(uCall.obj, uCall.targetField)
  /\ uPc' = "returned"
  /\ UNCHANGED uCall
  /\ UNCHANGED <<anchorVars, headingVars, indexVars, pluginVars>>

(***************************************************************************)
(* The index builder.  A JavaScript string is a sequence of characters     *)
(* and the empty sequence also stands for an absent (undefined) property:  *)
(* the code tests both with || and &&.  An entry type is "page",           *)
(* "section", "component" or "" (absent).                                  *)
(***************************************************************************)
MaxFieldLength == 2000

CleanTextKept == WordChars \cup Whitespace \cup {"-", ".", ",", "!", "?", ";", ":", "'", "(", ")"}

cleanText(text) ==
  IF text = <<>> THEN <<>>
  ELSE Substring0(Filter(ReplaceRuns(Trim(text), Whitespace, <<" ">>), CleanTextKept),
                  MaxFieldLength)

\* the properties of obj that removeEmptyFields keeps
removeEmptyFields(obj) ==
  {k \in obj.keys :
     CASE k = "type" -> obj.type # ""
       [] k = "score" -> obj.score # 0
       [] k = "headings" -> TRUE
       [] OTHER -> obj[k] # <<>>}

\* the object that the map callback builds before removeEmptyFields; keys are
\* the properties it has (wordCount and any other property of the raw entry
\* that the literal does not name are not copied)
optimizedObject(e, index) ==
  [id |-> IF e.id # <<>> THEN e.id
          ELSE <<"e", "n", "t", "r", "y", "-">> \o NumberToString(index),
   type |-> IF e.type # "" THEN e.type ELSE "page",
   url |-> IF e.url # <<>> THEN e.url ELSE <<"/">>,
   title |-> cleanText(e.title),
   content |-> cleanText(e.content),
   excerpt |-> cleanText(e.excerpt),
   headings |-> e.headings,
   score |-> 0,
   keys |-> {"id", "type", "url", "title", "content", "score"}
              \cup (IF e.excerpt # <<>> THEN {"excerpt"} ELSE {})
              \cup (IF Len(e.headings) > 0 THEN {"headings"} ELSE {})]

optimizeEntry(e, index) ==
  LET optimized == optimizedObject(e, index)
  IN [optimized EXCEPT !.keys = removeEmptyFields(optimized)]

optimizeEntriesForSearch(entries) ==
  [i \in 1..Len(entries) |-> optimizeEntry(entries[i], i - 1)]

ContentLength(e) == IF "content" \in e.keys THEN Len(e.content) ELSE 0

RECURSIVE TotalLength(_)
TotalLength(entries) ==
  IF entries = <<>> THEN 0
  ELSE ContentLength(Head(entries)) + TotalLength(Tail(entries))

\* Math.round(a / b) for a >= 0, b > 0
RoundDiv(a, b) == (2 * a + b) \div (2 * b)

\* a variant that sets the count of a type to 1 instead of adding 1 to it
generateIndexStatsNoIncrement(entries) ==
  [totalEntries |-> Len(entries),
   entriesByType |-> [t \in {entries[i].type : i \in 1..Len(entries)} |-> 1],
   averageContentLength |->
     IF Len(entries) > 0 THEN RoundDiv(TotalLength(entries), Len(entries)) ELSE 0,
   totalContentLength |-> TotalLength(entries)]

generateIndexStats(entries) ==
  LET types == {entries[i].type : i \in 1..Len(entries)}
      totalLength == TotalLength(entries)
  IN [totalEntries |-> Len(entries),
      entriesByType |->
        [t \in types |-> Cardinality({i \in 1..Len(entries) : entries[i].type = t})],
      averageContentLength |->
        IF Len(entries) > 0 THEN RoundDiv(totalLength, Len(entries)) ELSE 0,
      totalContentLength |-> totalLength]

indexerEmptyIndex ==
  [totalEntries |-> 0,
   stats |-> [totalEntries |-> 0, entriesByType |-> <<>>,
              averageContentLength |-> 0, totalContentLength |-> 0],
   entries |-> <<>>]

\* a value passed as searchEntries: an array, or null, or undefined
ArrayVal(a) == [t |-> "array", v |-> a]
NonArrays == {[t |-> k, v |-> <<>>] : k \in {"null", "undefined"}}

\* what the call gives when it reads a property of null or undefined
Raised == [status |-> "raised", index |-> indexerEmptyIndex]
NoIndex == [status |-> "none", index |-> indexerEmptyIndex]

\* a variant without the Array.isArray test: null.length raises
createSearchIndexNoArrayTest(input) ==
  IF input.t # "array" THEN Raised
  ELSE IF Len(input.v) = 0 THEN [status |-> "returned", index |-> indexerEmptyIndex]
  ELSE LET optimizedEntries == optimizeEntriesForSearch(input.v)
       IN [status |-> "returned",
           index |-> [totalEntries |-> Len(optimizedEntries),
                      stats |-> generateIndexStats(optimizedEntries),
                      entries |-> optimizedEntries]]

createSearchIndex(input) ==
  IF input.t # "array" \/ Len(input.v) = 0
  THEN [status |-> "returned", index |-> indexerEmptyIndex]
  ELSE LET optimizedEntries == optimizeEntriesForSearch(input.v)
       IN [status |-> "returned",
           index |-> [totalEntries |-> Len(optimizedEntries),
                      stats |-> generateIndexStats(optimizedEntries),
                      entries |-> optimizedEntries]]

EntryIds == {<<>>, <<"p">>}
EntryTypes == {"", "page", "section"}
EntryContents == {<<>>, <<"a">>, <<" ", "a", "<", " ", " ", "a">>}
InputEntries ==
  {[id |-> i, type |-> t, url |-> <<"/">>, title |-> <<"a">>, content |-> c,
    excerpt |-> <<>>, headings |-> <<>>, wordCount |-> wordCount(c)] :
     i \in EntryIds, t \in EntryTypes, c \in EntryContents}

IndexInit ==
  /\ ixInput \in {ArrayVal(a) : a \in SeqsUpTo(InputEntries, MaxEntries)} \cup NonArrays
  /\ ixOut = NoIndex

IndexIdle ==
  /\ ixInput = ArrayVal(<<>>)
  /\ ixOut = NoIndex

CreateIndex ==
  /\ ixOut.status = "none"
  /\ ixOut' = createSearchIndex(ixInput)
  /\ UNCHANGED ixInput
  /\ UNCHANGED <<anchorVars, headingVars, pluginVars, utilVars>>


(***************************************************************************)
(* The plugin function, in its two versions: the synchronous HTML-first    *)
(* pipeline ("html") and the batched markdown/component pipeline           *)
(* ("batch").  The files collection maps the file names 1..n, in key       *)
(* order, to the shape of the file object:                                 *)
(*   "ok"        a titled document with a long body                        *)
(*   "short"     a titled document with an empty body and sections: []     *)
(*   "throws"    a document whose extraction throws (sections: [{id: 5}]   *)
(*               in the batch pipeline, whose section.id.trim() raises)    *)
(*   "null"      the file object is null                                   *)
(*   "nonbuf"    the contents of the file are not a Buffer                 *)
(*   "unmatched" a file the pattern does not select                        *)
(***************************************************************************)
BatchSize == 2

FileKinds == {"ok", "short", "throws", "null", "nonbuf", "unmatched"}
Pipelines == {"html", "batch"}

FileUrl(name) == <<"/">> \o NumberToString(name)

PageEntry(name) ==
  [id |-> <<"p", "a", "g", "e", ":">> \o FileUrl(name), type |-> "page",
   url |-> FileUrl(name), title |-> <<"a">>, content |-> <<"a">>,
   excerpt |-> <<>>, headings |-> <<>>]

SectionEntry(name) ==
  [id |-> <<"s", "e", "c", "t", "i", "o", "n", ":">> \o FileUrl(name) \o <<":", "0">>,
   type |-> "section", url |-> FileUrl(name), title |-> <<"a">>, content |-> <<"a">>,
   excerpt |-> <<>>, headings |-> <<>>]

\* extractSearchableContent of the HTML-first extractor: null files, contents
\* that are no Buffer, blank markup and anything thrown all give []
htmlExtract(name, kind) ==
  IF kind = "ok" THEN <<PageEntry(name)>> ELSE <<>>

\* processFile of the HTML-first pipeline
processFile(name, kind) == htmlExtract(name, kind)

\* extractSearchableContent of the batch pipeline: what it resolves to
batchExtract(name, kind) ==
  CASE kind = "ok" -> <<PageEntry(name), SectionEntry(name)>>
    [] kind = "short" -> <<PageEntry(name)>>
    [] OTHER -> <<>>

\* the microtask turns between the call of extractSearchableContent and the
\* resumption of the callback of processBatch that awaits it: one for each
\* await the extraction runs through, and one for the callback's own await
extractionTicks(kind) ==
  CASE kind = "ok" -> 3
    [] kind = "short" -> 2
    [] OTHER -> 2

\* validateFileForSearch(...).canProcess
canProcess(kind) == kind \in {"ok", "short", "throws"}

\* hasSearchableContent, for a file object that is not null
hasSearchableContent(kind) == kind \in {"ok", "short", "throws"}

getFilePriority(kind) == IF kind = "ok" THEN 16 ELSE 15

\* metalsmith.match and validateFiles: the selected names, in key order
RECURSIVE SelectNames(_, _, _)
SelectNames(fs, i, keep) ==
  IF i > Len(fs) THEN <<>>
  ELSE IF fs[i] \in keep THEN <<i>> \o SelectNames(fs, i + 1, keep)
       ELSE SelectNames(fs, i + 1, keep)

validateFiles(fs) == SelectNames(fs, 1, FileKinds \ {"unmatched"})

\* Array.prototype.sort((a, b) => b.priority - a.priority): stable, descending
sortByPriority(fs, names) ==
  LET high(n) == getFilePriority(fs[n]) = 16
      low(n) == getFilePriority(fs[n]) # 16
  IN SelectSeq(names, high) \o SelectSeq(names, low)

\* filterAndSortFiles: it reads file.contents of every matched file
filterRaises(fs, names) == \E i \in 1..Len(names) : fs[names[i]] = "null"

filterAndSortFiles(fs, names) ==
  LET searchable(n) == hasSearchableContent(fs[n])
  IN sortByPriority(fs, SelectSeq(names, searchable))

Min(a, b) == IF a < b THEN a ELSE b

PluginInit ==
  /\ pipeline \in Pipelines
  /\ files \in SeqsUpTo(FileKinds, MaxFiles)
  /\ pc = "start"
  /\ filesToProcess = <<>>
  /\ pos = 1
  /\ queue = <<>>
  /\ remaining = <<>>
  /\ searchEntries = <<>>
  /\ allSearchEntries = <<>>
  /\ indexWrites = 0
  /\ indexFile = NoIndex
  /\ doneCalls = <<>>
  /\ finished = {}

PluginIdle ==
  /\ pipeline = "html"
  /\ files = <<>>
  /\ pc = "idle"
  /\ filesToProcess = <<>>
  /\ pos = 1
  /\ queue = <<>>
  /\ remaining = <<>>
  /\ searchEntries = <<>>
  /\ allSearchEntries = <<>>
  /\ indexWrites = 0
  /\ indexFile = NoIndex
  /\ doneCalls = <<>>
  /\ finished = {}

\* files[options.indexPath] = {contents: ...}
writeIndex(entries) ==
  /\ indexFile' = createSearchIndex(ArrayVal(entries))
  /\ indexWrites' = indexWrites + 1

\* setupFileProcessing of the HTML-first pipeline
SetupHtml ==
  /\ pc = "start"
  /\ pipeline = "html"
  /\ LET matched == validateFiles(files)
     IN IF Len(matched) = 0
        THEN /\ writeIndex(<<>>)
             /\ pc' = "calldone"
             /\ UNCHANGED filesToProcess
        ELSE /\ filesToProcess' = matched
             /\ pc' = "process"
             /\ UNCHANGED <<indexFile, indexWrites>>
  /\ UNCHANGED <<pipeline, files, pos, queue, remaining, searchEntries,
                 allSearchEntries, doneCalls, finished>>
  /\ UNCHANGED <<anchorVars, headingVars, indexVars, utilVars>>

\* setupFileProcessing of the batch pipeline
SetupBatch ==
  /\ pc = "start"
  /\ pipeline = "batch"
  /\ LET matched == validateFiles(files)
     IN IF Len(matched) = 0
        THEN /\ writeIndex(<<>>)
             /\ pc' = "calldone"
             /\ UNCHANGED filesToProcess
        ELSE IF filterRaises(files, matched)
        THEN /\ pc' = "failed"
             /\ UNCHANGED <<filesToProcess, indexFile, indexWrites>>
        ELSE IF Len(filterAndSortFiles(files, matched)) = 0
        THEN /\ writeIndex(<<>>)
             /\ pc' = "calldone"
             /\ UNCHANGED filesToProcess
        ELSE /\ filesToProcess' = filterAndSortFiles(files, matched)
             /\ pc' = "process"
             /\ UNCHANGED <<indexFile, indexWrites>>
  /\ UNCHANGED <<pipeline, files, pos, queue, remaining, searchEntries,
                 allSearchEntries, doneCalls, finished>>
  /\ UNCHANGED <<anchorVars, headingVars, indexVars, utilVars>>

\* one turn of the for loop of processAllFiles of the HTML-first pipeline
ProcessFile ==
  /\ pc = "process"
  /\ pipeline = "html"
  /\ pos <= Len(filesToProcess)
  /\ LET name == filesToProcess[pos]
     IN /\ allSearchEntries' = allSearchEntries \o processFile(name, files[name])
        /\ finished' = finished \cup {name}
  /\ pos' = pos + 1
  /\ UNCHANGED <<pipeline, files, pc, filesToProcess, queue, remaining,
                 searchEntries, indexWrites, indexFile, doneCalls>>
  /\ UNCHANGED <<anchorVars, headingVars, indexVars, utilVars>>

\* processBatch up to its await: every callback of batch.map runs to its first
\* await, in batch order
StartBatch ==
  /\ pc = "process"
  /\ pipeline = "batch"
  /\ pos <= Len(filesToProcess)
  /\ LET batch == SubSeq(filesToProcess, pos, Min(pos + BatchSize - 1, Len(filesToProcess)))
         runs(n) == canProcess(files[n])
         skipped(n) == ~canProcess(files[n])
     IN /\ queue' = SelectSeq(batch, runs)
        /\ remaining' = [n \in 1..Len(files) |-> extractionTicks(files[n])]
        /\ finished' = finished \cup {n \in 1..Len(files) : \E i \in 1..Len(batch) : batch[i] = n /\ skipped(n)}
  /\ searchEntries' = <<>>
  /\ pc' = "batch"
  /\ UNCHANGED <<pipeline, files, filesToProcess, pos, allSearchEntries,
                 indexWrites, indexFile, doneCalls>>
  /\ UNCHANGED <<anchorVars, headingVars, indexVars, utilVars>>

\* the callback of processBatch, resumed with the entries of its file
resumeCallback(entries, name, kind) == entries \o batchExtract(name, kind)

\* the head of the microtask queue runs
RunMicrotask ==
  /\ pc = "batch"
  /\ queue # <<>>
  /\ LET name == Head(queue)
     IN IF remaining[name] > 1
        THEN /\ queue' = Append(Tail(queue), name)
             /\ remaining' = [remaining EXCEPT ![name] = @ - 1]
             /\ UNCHANGED <<searchEntries, finished>>
        ELSE /\ queue' = Tail(queue)
             /\ remaining' = [remaining EXCEPT ![name] = 0]
             /\ searchEntries' = resumeCallback(searchEntries, name, files[name])
             /\ finished' = finished \cup {name}
  /\ UNCHANGED <<pipeline, files, pc, filesToProcess, pos, allSearchEntries,
                 indexWrites, indexFile, doneCalls>>
  /\ UNCHANGED <<anchorVars, headingVars, indexVars, utilVars>>

\* Promise.all has resolved: processAllFiles appends the entries of the batch
FinishBatch ==
  /\ pc = "batch"
  /\ queue = <<>>
  /\ allSearchEntries' = allSearchEntries \o searchEntries
  /\ pos' = pos + BatchSize
  /\ pc' = "process"
  /\ UNCHANGED <<pipeline, files, filesToProcess, queue, remaining, searchEntries,
                 indexWrites, indexFile, doneCalls, finished>>
  /\ UNCHANGED <<anchorVars, headingVars, indexVars, utilVars>>

\* a variant of createAndSaveIndex that does not wait for the last file
SaveIndexEarly ==
  /\ pc = "process"
  /\ writeIndex(allSearchEntries)
  /\ pc' = "calldone"
  /\ UNCHANGED <<pipeline, files, filesToProcess, pos, queue, remaining,
                 searchEntries, allSearchEntries, doneCalls, finished>>
  /\ UNCHANGED <<anchorVars, headingVars, indexVars, utilVars>>

\* createAndSaveIndex
SaveIndex ==
  /\ pc = "process"
  /\ pos > Len(filesToProcess)
  /\ writeIndex(allSearchEntries)
  /\ pc' = "calldone"
  /\ UNCHANGED <<pipeline, files, filesToProcess, pos, queue, remaining,
                 searchEntries, allSearchEntries, doneCalls, finished>>
  /\ UNCHANGED <<anchorVars, headingVars, indexVars, utilVars>>

\* done()
CallDone ==
  /\ pc = "calldone"
  /\ doneCalls' = Append(doneCalls, "ok")
  /\ pc' = "end"
  /\ UNCHANGED <<pipeline, files, filesToProcess, pos, queue, remaining,
                 searchEntries, allSearchEntries, indexWrites, indexFile, finished>>
  /\ UNCHANGED <<anchorVars, headingVars, indexVars, utilVars>>

\* done() when the callback throws (it runs the plugins that follow): the call
\* has been made, and the throw is caught by the catch of the plugin function,
\* which the call stands inside of
CallDoneThrows ==
  /\ pc = "calldone"
  /\ doneCalls' = Append(doneCalls, "ok")
  /\ pc' = "failed"
  /\ UNCHANGED <<pipeline, files, filesToProcess, pos, queue, remaining,
                 searchEntries, allSearchEntries, indexWrites, indexFile, finished>>
  /\ UNCHANGED <<anchorVars, headingVars, indexVars, utilVars>>

\* the catch of the plugin function: done(error)
CallDoneError ==
  /\ pc = "failed"
  /\ doneCalls' = Append(doneCalls, "error")
  /\ pc' = "end"
  /\ UNCHANGED <<pipeline, files, filesToProcess, pos, queue, remaining,
                 searchEntries, allSearchEntries, indexWrites, indexFile, finished>>
  /\ UNCHANGED <<anchorVars, headingVars, indexVars, utilVars>>

(***************************************************************************)
(* The specifications: one for each part of the program.                   *)
(***************************************************************************)
(***************************************************************************)
(* The text utilities.  One call is modelled at a time: uCall holds the    *)
(* function and its arguments, uOut what it returned.                      *)
(*                                                                         *)
(* Markup is a sequence of tokens, each a whole tag, a whole entity or one *)
(* character of text, so that the tag patterns of the code match token by  *)
(* token.                                                                  *)
(***************************************************************************)
NoCall == [fn |-> "none"]

UtilIdle ==
  /\ uCall = NoCall
  /\ uOut = <<>>
  /\ uPc = "idle"

OpenRaw == {"<script>", "<style>"}
\* the end tags of an element as an HTML parser reads them: white space may
\* follow the tag name
EndTags(open) ==
  IF open = "<script>" THEN {"</script>", "</script >"} ELSE {"</style>", "</style >"}
BlockEnds == {"</p>", "<br>"}
TagTokens == OpenRaw \cup {"</script>", "</script >", "</style>", "</style >", "<p>"} \cup BlockEnds
TextTokens == {"x", " ", "&amp;"}
MarkupTokens ==
  {"<script>", "</script>", "</script >", "<style>", "</style>", "<p>", "</p>", "<br>"}
    \cup TextTokens

\* the position of the first token of s at or after i that is in cls, 0 when none
RECURSIVE FirstIn(_, _, _)
FirstIn(s, i, cls) ==
  IF i > Len(s) THEN 0
  ELSE IF s[i] \in cls THEN i ELSE FirstIn(s, i + 1, cls)

\* html.replace(/<script[^>]*>[\s\S]*?<\/script>/gi, ''), and the same for style
RECURSIVE removeElement(_, _, _)
removeElement(html, open, close) ==
  IF html = <<>> THEN <<>>
  ELSE LET j == FirstIn(html, 2, {close})
       IN IF Head(html) = open /\ j > 0
          THEN removeElement(SubSeq(html, j + 1, Len(html)), open, close)
          ELSE <<Head(html)>> \o removeElement(Tail(html), open, close)

removeScriptsAndStyles(html) ==
  removeElement(removeElement(html, "<script>", "</script>"), "<style>", "</style>")

convertElements(html, preserveLineBreaks) ==
  IF preserveLineBreaks
  THEN [i \in 1..Len(html) |-> IF html[i] \in BlockEnds THEN "\n" ELSE html[i]]
  ELSE html

\* the atoms of text that is written character by character: a letter, a
\* space, the two angle brackets, an ampersand, the entity name lt and a
\* semicolon
WordAtoms == {"x", "lt", "amp"}
PlainAtoms == {"x", " ", "<", ">", "&", "lt", ";"}

\* html.replace(/<[^>]+>/g, ''): a whole tag is one token; a '<' that stands
\* alone matches up to the next '>', which is a '>' of its own or the one that
\* ends the next tag, when at least one character lies between
RECURSIVE stripTags(_)
stripTags(html) ==
  IF html = <<>> THEN <<>>
  ELSE IF Head(html) \in TagTokens THEN stripTags(Tail(html))
  ELSE LET j == FirstIn(html, 2, TagTokens \cup {">"})
       IN IF Head(html) = "<" /\ j > 0 /\ (j > 2 \/ html[j] \in TagTokens)
          THEN stripTags(SubSeq(html, j + 1, Len(html)))
          ELSE <<Head(html)>> \o stripTags(Tail(html))

\* the length of the run of name characters that text starts with
RECURSIVE NameRun(_)
NameRun(text) ==
  IF text # <<>> /\ Head(text) \in WordAtoms THEN 1 + NameRun(Tail(text)) ELSE 0

\* the entities table, for the names of the model
entityChar(name) ==
  IF name = <<"amp">> THEN <<"&">>
  ELSE IF name = <<"lt">> THEN <<"<">>
  ELSE <<"&">> \o name \o <<";">>

\* text.replace(/&[a-zA-Z0-9#]+;/g, (match) => entities[match] || match)
RECURSIVE decodeEntities(_)
decodeEntities(text) ==
  IF text = <<>> THEN <<>>
  ELSE IF Head(text) = "&amp;" THEN <<"&">> \o decodeEntities(Tail(text))
  ELSE LET n == NameRun(Tail(text))
       IN IF Head(text) = "&" /\ n > 0 /\ Len(text) >= n + 2 /\ text[n + 2] = ";"
          THEN entityChar(SubSeq(text, 2, n + 1))
                 \o decodeEntities(SubSeq(text, n + 3, Len(text)))
          ELSE <<Head(text)>> \o decodeEntities(Tail(text))

\* text.replace(/\n\s+/g, '\n')
RECURSIVE newlineThenSpace(_)
newlineThenSpace(text) ==
  IF text = <<>> THEN <<>>
  ELSE IF Head(text) = "\n" /\ Len(text) > 1 /\ text[2] \in Whitespace
       THEN <<"\n">> \o newlineThenSpace(TrimLeft(Tail(text), Whitespace))
       ELSE <<Head(text)>> \o newlineThenSpace(Tail(text))

\* the length of the run of white space that text starts with
RECURSIVE RunLength(_)
RunLength(text) ==
  IF text # <<>> /\ Head(text) \in Whitespace THEN 1 + RunLength(Tail(text)) ELSE 0

\* text.replace(/\s+\n/g, '\n'): the match runs to the last newline of the run
RECURSIVE spaceThenNewline(_)
spaceThenNewline(text) ==
  IF text = <<>> THEN <<>>
  ELSE LET ends == {k \in 2..RunLength(text) : text[k] = "\n"}
       IN IF ends # {}
          THEN LET k == CHOOSE m \in ends : \A n \in ends : n <= m
               IN <<"\n">> \o spaceThenNewline(SubSeq(text, k + 1, Len(text)))
          ELSE <<Head(text)>> \o spaceThenNewline(Tail(text))

\* the length of the run of newlines that text starts with
RECURSIVE NewlineRun(_)
NewlineRun(text) ==
  IF text # <<>> /\ Head(text) = "\n" THEN 1 + NewlineRun(Tail(text)) ELSE 0

\* text.replace(/\n{3,}/g, '\n\n')
RECURSIVE collapseNewlines(_)
collapseNewlines(text) ==
  IF text = <<>> THEN <<>>
  ELSE LET n == NewlineRun(text)
       IN IF n >= 3 THEN <<"\n", "\n">> \o collapseNewlines(SubSeq(text, n + 1, Len(text)))
          ELSE <<Head(text)>> \o collapseNewlines(Tail(text))

cleanWhitespace(text, clean) ==
  IF ~clean THEN text
  ELSE collapseNewlines(spaceThenNewline(newlineThenSpace(
         ReplaceRuns(text, Whitespace, <<" ">>))))

\* stripHtml of the pattern-based stripper
stripHtmlPatterns(html, config) ==
  IF html = <<>> THEN <<>>
  ELSE LET noScripts == removeScriptsAndStyles(html)
           converted == convertElements(noScripts, config.preserveLineBreaks)
           stripped == stripTags(converted)
           decoded == IF config.decodeEntities THEN decodeEntities(stripped) ELSE stripped
       IN Trim(cleanWhitespace(decoded, config.cleanWhitespace))

\* cheerio.load(html) followed by remove() of the selected elements: the
\* tokens that are left.  mode is "" in ordinary content, and the start tag of
\* the script, style or excluded element that the parser is inside of.
RECURSIVE loadAndRemove(_, _, _)
loadAndRemove(html, mode, excluded) ==
  IF html = <<>> THEN <<>>
  ELSE LET t == Head(html)
           rest == Tail(html)
       IN CASE mode \in OpenRaw ->
                 loadAndRemove(rest, IF t \in EndTags(mode) THEN "" ELSE mode, excluded)
            [] mode = "<p>" ->
                 IF t = "</p>" THEN loadAndRemove(rest, "", excluded)
                 ELSE IF t \in OpenRaw THEN loadAndRemove(rest, t, excluded)
                 ELSE loadAndRemove(rest, mode, excluded)
            [] OTHER ->
                 IF t \in OpenRaw \/ (t = "<p>" /\ "p" \in excluded)
                 THEN loadAndRemove(rest, t, excluded)
                 ELSE <<t>> \o loadAndRemove(rest, "", excluded)

\* stripHtml of the Cheerio-based stripper: $.text().trim()
stripHtmlCheerio(html, config) ==
  IF html = <<>> THEN <<>>
  ELSE LET kept == Remove(loadAndRemove(html, "", config.excludeSelectors), TagTokens)
       IN Trim(IF config.decodeEntities THEN decodeEntities(kept) ELSE kept)

Markups == SeqsUpTo(MarkupTokens, MaxMarkupLen)

PatternConfigs ==
  [preserveLineBreaks : BOOLEAN, cleanWhitespace : BOOLEAN, decodeEntities : BOOLEAN]
CheerioConfigs == [excludeSelectors : {{}, {"p"}}, decodeEntities : BOOLEAN]

StripHtmlPatterns ==
  /\ uPc = "called"
  /\ uCall.fn = "stripHtml"
  /\ uCall.stripper = "patterns"
  /\ uOut' = stripHtmlPatterns(uCall.html, uCall.config)
  /\ uPc' = "returned"
  /\ UNCHANGED uCall
  /\ UNCHANGED <<anchorVars, headingVars, indexVars, pluginVars>>

StripHtmlCheerio ==
  /\ uPc = "called"
  /\ uCall.fn = "stripHtml"
  /\ uCall.stripper = "cheerio"
  /\ uOut' = stripHtmlCheerio(uCall.html, uCall.config)
  /\ uPc' = "returned"
  /\ UNCHANGED uCall
  /\ UNCHANGED <<anchorVars, headingVars, indexVars, pluginVars>>

InitStrip ==
  /\ AnchorIdle /\ HeadingIdle /\ IndexIdle /\ PluginIdle
  /\ \E h \in Markups :
       \/ \E c \in PatternConfigs :
            uCall = [fn |-> "stripHtml", stripper |-> "patterns", html |-> h, config |-> c]
       \/ \E c \in CheerioConfigs :
            uCall = [fn |-> "stripHtml", stripper |-> "cheerio", html |-> h, config |-> c]
  /\ uOut = <<>>
  /\ uPc = "called"
NextStrip == StripHtmlPatterns \/ StripHtmlCheerio
SpecStrip == InitStrip /\ [][NextStrip]_vars

\* stripHtml of the pattern-based stripper on text written atom by atom
PlainTexts == SeqsUpTo(PlainAtoms, MaxPlainLen)

InitPlain ==
  /\ AnchorIdle /\ HeadingIdle /\ IndexIdle /\ PluginIdle
  /\ \E h \in PlainTexts, c \in PatternConfigs :
       uCall = [fn |-> "stripHtml", stripper |-> "patterns", html |-> h, config |-> c]
  /\ uOut = <<>>
  /\ uPc = "called"
NextPlain == StripHtmlPatterns
SpecPlain == InitPlain /\ [][NextPlain]_vars


\* the texts of a page, each given by its runs: up to MaxBlocks blocks, each a
\* run of a letter, a space or a full stop
FillLengths == {1, ExcerptLength, ExcerptThreshold}
TextBlocks ==
  {[c |-> "a", n |-> k] : k \in FillLengths} \cup {[c |-> " ", n |-> 1], [c |-> ".", n |-> 1]}

PageTexts == SeqsUpTo(TextBlocks, MaxBlocks)

\* the paths of the files: one or two segments, then ".html"
Segments == {"a", "index"}
SegmentPaths == {<<x>> : x \in Segments} \cup {<<x, y>> : x \in Segments, y \in Segments}

RECURSIVE JoinPath(_)
JoinPath(segs) ==
  IF Len(segs) <= 1 THEN segs ELSE <<Head(segs), "/">> \o JoinPath(Tail(segs))

PageCalls ==
  {[fn |-> "extractSearchableContent", segments |-> g,
    filename |-> JoinPath(g) \o <<".html">>, text |-> t] :
     g \in SegmentPaths, t \in PageTexts}

InitPage ==
  /\ AnchorIdle /\ HeadingIdle /\ IndexIdle /\ PluginIdle
  /\ uCall \in PageCalls
  /\ uOut = <<>>
  /\ uPc = "called"
NextPage == ExtractPage
SpecPage == InitPage /\ [][NextPage]_vars

\* the contents given to splitLongContent: short strings of letters, full
\* stops and spaces, with small chunk sizes
ChunkContents ==
  UNION {[1..n -> {"a", ".", " "}] : n \in 0..MaxContentLen}
ChunkCalls ==
  {[fn |-> "splitLongContent", content |-> c, maxLength |-> m] :
     c \in ChunkContents, m \in 1..MaxChunkSize}

\* the contents given to extractTraditionalSections: up to MaxSentences
\* sentences, each given by its length
SentenceLengths == {40, 60, 1200, 2100}

SegmenterOptions ==
  [maxSectionLength : {SectionSplitLength, 1000}, chunkSize : {SectionChunkLength, 1000},
   minSectionLength : {SectionMinLength, 100}]

SectionCalls ==
  {[fn |-> "extractTraditionalSections", sentences |-> l, options |-> o] :
     l \in SeqsUpTo(SentenceLengths, MaxSentences), o \in SegmenterOptions}

InitChunks ==
  /\ AnchorIdle /\ HeadingIdle /\ IndexIdle /\ PluginIdle
  /\ uCall \in ChunkCalls
  /\ uOut = <<>>
  /\ uPc = "called"
NextChunks == SplitLongContent
SpecChunks == InitChunks /\ [][NextChunks]_vars

InitSegmenter ==
  /\ AnchorIdle /\ HeadingIdle /\ IndexIdle /\ PluginIdle
  /\ uCall \in SectionCalls
  /\ uOut = <<>>
  /\ uPc = "called"
NextSegmenter == ExtractTraditionalSections
SpecSegmenter == InitSegmenter /\ [][NextSegmenter]_vars

\* the lines of a document: two headings, two lines of text and an empty line
DocumentLines == {<<"#", " ", "A">>, <<"#", "#", " ", "B">>, <<"t">>, <<"u">>, <<>>}

InitSections ==
  /\ AnchorIdle /\ HeadingIdle /\ IndexIdle /\ PluginIdle
  /\ \E l \in SeqsUpTo(DocumentLines, MaxLines) :
       uCall = [fn |-> "splitContentBySections", lines |-> l]
  /\ uOut = <<>>
  /\ uPc = "called"
NextSections == SplitContentBySections
SpecSections == InitSections /\ [][NextSections]_vars

\* the build of a site, with the paths of its files as they are: the files
\* are extracted one after the other and the index is built from the entries
SiteFiles(extractor) ==
  {[segments |-> g, filename |-> JoinPath(g) \o <<e>>] :
     g \in SegmentPaths, e \in IF extractor = "html" THEN {".html"} ELSE {".md", ".html"}}

DistinctFiles(fs) == \A i, j \in 1..Len(fs) : i # j => fs[i].filename # fs[j].filename

\* the entries of one file: the page entry of the HTML-first extractor, or the
\* page entry and the entry of the first section of the component extractor
siteEntries(extractor, filename) ==
  LET url == IF extractor = "html" THEN pageUrl(filename) ELSE componentUrl(filename)
      page == [id |-> <<"page:">> \o url, type |-> "page", url |-> url,
               title |-> <<"a">>, content |-> <<"a">>, excerpt |-> <<>>, headings |-> <<>>]
      section == [id |-> <<"section:">> \o url \o <<":", "0">>, type |-> "section",
                  url |-> url, title |-> <<"a">>, content |-> <<"a">>,
                  excerpt |-> <<>>, headings |-> <<>>]
  IN IF extractor = "html" THEN <<page>> ELSE <<page, section>>

RECURSIVE AllEntries(_)
AllEntries(done) ==
  IF done = <<>> THEN <<>> ELSE Head(done).entries \o AllEntries(Tail(done))

InitSite ==
  /\ AnchorIdle /\ HeadingIdle /\ IndexIdle /\ PluginIdle
  /\ \E p \in Pipelines :
       \E fs \in SeqsUpTo(SiteFiles(p), MaxSiteFiles) :
         /\ DistinctFiles(fs)
         /\ uCall = [fn |-> "build", pipeline |-> p, files |-> fs]
  /\ uOut = [done |-> <<>>, index |-> NoIndex]
  /\ uPc = "extract"

\* extractSearchableContent of the next file
ExtractFile ==
  /\ uPc = "extract"
  /\ Len(uOut.done) < Len(uCall.files)
  /\ LET file == uCall.files[Len(uOut.done) + 1]
     IN uOut' = [uOut EXCEPT !.done =
                   Append(@, [segments |-> file.segments, filename |-> file.filename,
                              entries |-> siteEntries(uCall.pipeline, file.filename)])]
  /\ UNCHANGED <<uCall, uPc>>
  /\ UNCHANGED <<anchorVars, headingVars, indexVars, pluginVars>>

\* createSearchIndex of the entries of all files
BuildSiteIndex ==
  /\ uPc = "extract"
  /\ Len(uOut.done) = Len(uCall.files)
  /\ uOut' = [uOut EXCEPT !.index = createSearchIndex(ArrayVal(AllEntries(uOut.done)))]
  /\ uPc' = "returned"
  /\ UNCHANGED uCall
  /\ UNCHANGED <<anchorVars, headingVars, indexVars, pluginVars>>

NextSite == ExtractFile \/ BuildSiteIndex
SpecSite == InitSite /\ [][NextSite]_vars

\* findNestedField on objects that may refer to each other: the objects are
\* numbered, each has the properties title, a and b in this order, and a and
\* b are null or refer to an object.  The call runs one step at a time on a
\* stack of frames; a frame holds its object and the position k of the for
\* loop (0 before the direct match), and ret is the value a call has
\* returned to the frame below it.
GraphNodes == 1..MaxNodes
RefVal(n) == [t |-> "ref", v |-> n]
GraphObjects ==
  [title : {NullVal, StrVal(<<>>), StrVal(<<"t">>)},
   a : {NullVal} \cup {RefVal(n) : n \in GraphNodes},
   b : {NullVal} \cup {RefVal(n) : n \in GraphNodes}]
GraphKeys == <<"title", "a", "b">>

\* the frames the engine has room for; a chain of distinct objects needs one
\* frame for each
CallStackLimit == MaxNodes + 1

NoReturn == [t |-> "none", v |-> <<>>]

InitGraph ==
  /\ AnchorIdle /\ HeadingIdle /\ IndexIdle /\ PluginIdle
  /\ \E h \in [GraphNodes -> GraphObjects] :
       uCall = [fn |-> "findNestedFieldOnGraph", heap |-> h, targetField |-> "title"]
  /\ uOut = [stack |-> <<[node |-> 1, k |-> 0]>>, ret |-> NoReturn]
  /\ uPc = "running"

GraphRunning == uPc = "running" /\ uCall.fn = "findNestedFieldOnGraph"
TopFrame == uOut.stack[Len(uOut.stack)]
PopFrame == SubSeq(uOut.stack, 1, Len(uOut.stack) - 1)
SetTopK(k) == [uOut.stack EXCEPT ![Len(uOut.stack)].k = k]
\* obj[key] of the object of the top frame, at the position of the loop
ValueAtK == uCall.heap[TopFrame.node][GraphKeys[TopFrame.k]]

\* the direct match: obj[targetField] && typeof obj[targetField] === 'string'
FieldDirectMatch ==
  /\ GraphRunning
  /\ uOut.stack # <<>> /\ uOut.ret = NoReturn
  /\ TopFrame.k = 0
  /\ LET direct == uCall.heap[TopFrame.node][uCall.targetField]
     IN IF direct.t = "string" /\ direct.v # <<>>
        THEN uOut' = [stack |-> PopFrame, ret |-> direct]
        ELSE uOut' = [uOut EXCEPT !.stack = SetTopK(1)]
  /\ UNCHANGED <<uCall, uPc>>
  /\ UNCHANGED <<anchorVars, headingVars, indexVars, pluginVars>>

\* a property that is no object, or is null: the loop goes on
FieldSkipProperty ==
  /\ GraphRunning
  /\ uOut.stack # <<>> /\ uOut.ret = NoReturn
  /\ TopFrame.k \in 1..Len(GraphKeys)
  /\ ValueAtK.t # "ref"
  /\ uOut' = [uOut EXCEPT !.stack = SetTopK(TopFrame.k + 1)]
  /\ UNCHANGED <<uCall, uPc>>
  /\ UNCHANGED <<anchorVars, headingVars, indexVars, pluginVars>>

\* findNestedField(obj[key], targetField): a new frame
FieldRecurse ==
  /\ GraphRunning
  /\ uOut.stack # <<>> /\ uOut.ret = NoReturn
  /\ TopFrame.k \in 1..Len(GraphKeys)
  /\ ValueAtK.t = "ref"
  /\ Len(uOut.stack) < CallStackLimit
  /\ uOut' = [uOut EXCEPT !.stack = Append(@, [node |-> ValueAtK.v, k |-> 0])]
  /\ UNCHANGED <<uCall, uPc>>
  /\ UNCHANGED <<anchorVars, headingVars, indexVars, pluginVars>>

\* the same call when the stack is full: the engine throws a RangeError, which
\* no frame of findNestedField catches
FieldStackOverflow ==
  /\ GraphRunning
  /\ uOut.stack # <<>> /\ uOut.ret = NoReturn
  /\ TopFrame.k \in 1..Len(GraphKeys)
  /\ ValueAtK.t = "ref"
  /\ Len(uOut.stack) = CallStackLimit
  /\ uPc' = "raised"
  /\ UNCHANGED <<uCall, uOut>>
  /\ UNCHANGED <<anchorVars, headingVars, indexVars, pluginVars>>

\* the loop is over: return null
FieldLoopEnd ==
  /\ GraphRunning
  /\ uOut.stack # <<>> /\ uOut.ret = NoReturn
  /\ TopFrame.k > Len(GraphKeys)
  /\ uOut' = [stack |-> PopFrame, ret |-> NullVal]
  /\ UNCHANGED <<uCall, uPc>>
  /\ UNCHANGED <<anchorVars, headingVars, indexVars, pluginVars>>

\* a nested call has returned: if (result) return result, else the loop goes on
FieldResume ==
  /\ GraphRunning
  /\ uOut.stack # <<>> /\ uOut.ret # NoReturn
  /\ IF uOut.ret # NullVal
     THEN uOut' = [uOut EXCEPT !.stack = PopFrame]
     ELSE uOut' = [stack |-> SetTopK(TopFrame.k + 1), ret |-> NoReturn]
  /\ UNCHANGED <<uCall, uPc>>
  /\ UNCHANGED <<anchorVars, headingVars, indexVars, pluginVars>>

\* the outermost call has returned
FieldReturn ==
  /\ GraphRunning
  /\ uOut.stack = <<>> /\ uOut.ret # NoReturn
  /\ uPc' = "returned"
  /\ UNCHANGED <<uCall, uOut>>
  /\ UNCHANGED <<anchorVars, headingVars, indexVars, pluginVars>>

NextGraph ==
  \/ FieldDirectMatch
  \/ FieldSkipProperty
  \/ FieldRecurse
  \/ FieldStackOverflow
  \/ FieldLoopEnd
  \/ FieldResume
  \/ FieldReturn
SpecGraph == InitGraph /\ [][NextGraph]_vars

\* the options of the plugin (src/src/utils/config.js).  An object is the
\* sequence of its properties in key order.
UndefinedVal == [t |-> "undefined", v |-> <<>>]
NumberVal == [t |-> "number", v |-> <<>>]

\* the default options, with one property of each kind
defaultOptions ==
  ObjVal(<<Prop("pattern", StrVal(<<"p">>)),
           Prop("ignore", ArrayVal(<<StrVal(<<"i">>)>>)),
           Prop("fuseOptions", ObjVal(<<Prop("threshold", NumberVal)>>))>>)

Truthy(value) ==
  /\ value.t \notin {"null", "undefined"}
  /\ ~(value.t = "string" /\ value.v = <<>>)

\* the properties of {...value}
spreadOf(value) ==
  CASE value.t = "object" -> value.v
    [] value.t \in {"string", "array"} ->
         [i \in 1..Len(value.v) |->
            Prop(ToString(i - 1),
                 IF value.t = "string" THEN StrVal(<<value.v[i]>>) ELSE value.v[i])]
    [] OTHER -> <<>>

\* the properties of {...acc, [key]: value}
withProperty(acc, key, value) ==
  IF \E i \in 1..Len(acc) : acc[i].key = key
  THEN [i \in 1..Len(acc) |-> IF acc[i].key = key THEN Prop(key, value) ELSE acc[i]]
  ELSE Append(acc, Prop(key, value))

RECURSIVE deepMerge(_, _)
RECURSIVE mergeFrom(_, _, _, _)
\* the reduce of deepMerge, from the i-th key of source on
mergeFrom(acc, target, source, i) ==
  IF i > Len(source.v) THEN acc
  ELSE LET key == source.v[i].key
           value == source.v[i].value
           merged == IF value.t = "object"
                     THEN deepMerge(IF Truthy(getProperty(target, key))
                                    THEN getProperty(target, key) ELSE ObjVal(<<>>),
                                    value)
                     ELSE value
       IN mergeFrom(withProperty(acc, key, merged), target, source, i + 1)

deepMerge(target, source) == ObjVal(mergeFrom(spreadOf(target), target, source, 1))

\* what the user may give for one option; Absent stands for a key that the
\* user options do not have
Absent == [t |-> "absent", v |-> <<>>]
UserValues ==
  {Absent, NullVal, UndefinedVal, StrVal(<<"u">>), ArrayVal(<<>>), ObjVal(<<>>),
   ObjVal(<<Prop("threshold", NullVal)>>), ObjVal(<<Prop("keys", ArrayVal(<<>>))>>)}

userOptionsOf(pattern, ignore, fuseOptions, extra) ==
  ObjVal(SelectSeq(<<Prop("pattern", pattern), Prop("ignore", ignore),
                     Prop("fuseOptions", fuseOptions), Prop("extra", extra)>>,
                   LAMBDA p : p.value # Absent))

InitMerge ==
  /\ AnchorIdle /\ HeadingIdle /\ IndexIdle /\ PluginIdle
  /\ \E p \in UserValues, i \in UserValues, f \in UserValues, x \in {Absent, NullVal} :
       uCall = [fn |-> "deepMerge", target |-> defaultOptions,
                source |-> userOptionsOf(p, i, f, x)]
  /\ uOut = <<>>
  /\ uPc = "called"

\* deepMerge(defaultOptions, userOptions); target and source of the result are
\* the two arguments as the call leaves them: the code reads them and assigns
\* only to objects it has made itself
DeepMerge ==
  /\ uPc = "called"
  /\ uCall.fn = "deepMerge"
  /\ uOut' = [merged |-> deepMerge(uCall.target, uCall.source),
              target |-> uCall.target, source |-> uCall.source]
  /\ uPc' = "returned"
  /\ UNCHANGED uCall
  /\ UNCHANGED <<anchorVars, headingVars, indexVars, pluginVars>>

NextMerge == DeepMerge
SpecMerge == InitMerge /\ [][NextMerge]_vars

\* cleanText of the index builder on one text
InitClean ==
  /\ AnchorIdle /\ HeadingIdle /\ IndexIdle /\ PluginIdle
  /\ \E text \in StringsUpTo(MaxTextLen) : uCall = [fn |-> "cleanText", text |-> text]
  /\ uOut = <<>>
  /\ uPc = "called"

CleanText ==
  /\ uPc = "called"
  /\ uCall.fn = "cleanText"
  /\ uOut' = cleanText(uCall.text)
  /\ uPc' = "returned"
  /\ UNCHANGED uCall
  /\ UNCHANGED <<anchorVars, headingVars, indexVars, pluginVars>>

NextClean == CleanText
SpecClean == InitClean /\ [][NextClean]_vars

\* ensureSectionIDs on the sections array of one document.  A section has an
\* id, a sectionType and, nested under text, a title and a leadIn, each of
\* which may be absent.
SectionIdValues == {Absent, StrVal(<<>>), StrVal(<<" ">>), StrVal(<<"a">>), NumberVal}
SectionObjects ==
  {ObjVal(SelectSeq(<<Prop("id", id), Prop("sectionType", st),
                      Prop("text", ObjVal(SelectSeq(<<Prop("title", title), Prop("leadIn", leadIn)>>,
                                                    LAMBDA p : p.value # Absent)))>>,
                    LAMBDA p : p.value # Absent)) :
     id \in SectionIdValues,
     st \in {Absent, StrVal(<<"t", "e", "x", "t">>)},
     title \in {Absent, StrVal(<<"a">>), StrVal(<<"A", " ", "1">>)},
     leadIn \in {Absent, StrVal(<<"a">>)}}

\* !section.id || section.id.trim() === '', for an id that is absent or a string
needsId(section) ==
  LET id == getProperty(section, "id")
  IN id.t # "string" \/ Trim(id.v) = <<>>

\* the id that ensureSectionIDs gives section i (counted from 0)
generatedSectionId(section, i) ==
  LET title == findNestedField(section, "title")
      leadIn == findNestedField(section, "leadIn")
      sectionType == getProperty(section, "sectionType")
      sectionContent == IF Truthy(title) THEN title
                        ELSE IF Truthy(leadIn) THEN leadIn
                        ELSE IF Truthy(sectionType) THEN sectionType
                        ELSE StrVal(Section \o <<"-">> \o NumberToString(i))
  IN StrVal(generateAnchorId(sectionContent, DefaultAnchorOptions))

\* the ids of the sections after the loop of ensureSectionIDs
ensureSectionIDs(sections) ==
  [k \in 1..Len(sections) |->
     IF needsId(sections[k]) THEN generatedSectionId(sections[k], k - 1)
     ELSE getProperty(sections[k], "id")]

\* section.id.trim() of an id that is a number other than 0: a TypeError
trimRaises(sections) ==
  \E k \in 1..Len(sections) : getProperty(sections[k], "id").t = "number"

InitSectionIds ==
  /\ AnchorIdle /\ HeadingIdle /\ IndexIdle /\ PluginIdle
  /\ \E sections \in SeqsUpTo(SectionObjects, MaxSections) :
       uCall = [fn |-> "ensureSectionIDs", sections |-> sections]
  /\ uOut = <<>>
  /\ uPc = "called"

EnsureSectionIDs ==
  /\ uPc = "called"
  /\ uCall.fn = "ensureSectionIDs"
  /\ IF trimRaises(uCall.sections)
     THEN uPc' = "raised" /\ UNCHANGED uOut
     ELSE uPc' = "returned" /\ uOut' = ensureSectionIDs(uCall.sections)
  /\ UNCHANGED uCall
  /\ UNCHANGED <<anchorVars, headingVars, indexVars, pluginVars>>

NextSectionIds == EnsureSectionIDs
SpecSectionIds == InitSectionIds /\ [][NextSectionIds]_vars

\* the objects given to findNestedField: properties a and title, in this
\* order, nested up to MaxDepth deep under a; every non-empty string is the
\* path of keys that leads to it, so that the result tells where it was found
Leaves == {StrVal(<<>>), StrVal(<<"s">>), NullVal}
TitledObject == ObjVal(<<Prop("title", StrVal(<<"s">>))>>)
TitleValues == Leaves \cup {TitledObject}

PropsOf(aValues, titleValues) ==
  {<<>>}
    \cup {<<Prop("a", x)>> : x \in aValues}
    \cup {<<Prop("title", y)>> : y \in titleValues}
    \cup {<<Prop("a", x), Prop("title", y)>> : x \in aValues, y \in titleValues}

RECURSIVE ObjectsUpTo(_)
ObjectsUpTo(d) ==
  IF d = 0 THEN {}
  ELSE {ObjVal(ps) :
          ps \in PropsOf(Leaves \cup ObjectsUpTo(d - 1) \cup {ArrayVal(<<TitledObject>>)},
                         TitleValues)}

RECURSIVE Relabel(_, _)
Relabel(x, path) ==
  CASE x.t = "string" -> IF x.v = <<>> THEN x ELSE StrVal(path)
    [] x.t = "array" -> ArrayVal([i \in 1..Len(x.v) |-> Relabel(x.v[i], Append(path, "0"))])
    [] x.t = "object" ->
         ObjVal([i \in 1..Len(x.v) |->
                   Prop(x.v[i].key, Relabel(x.v[i].value, Append(path, x.v[i].key)))])
    [] OTHER -> x

FieldCalls ==
  {[fn |-> "findNestedField", obj |-> Relabel(o, <<>>), targetField |-> f] :
     o \in ObjectsUpTo(MaxDepth) \cup NonStrings \cup {StrVal(<<"s">>), ArrayVal(<<TitledObject>>)},
     f \in {"title", "a"}}

InitField ==
  /\ AnchorIdle /\ HeadingIdle /\ IndexIdle /\ PluginIdle
  /\ uCall \in FieldCalls
  /\ uOut = <<>>
  /\ uPc = "called"
NextField == FindNestedField
SpecField == InitField /\ [][NextField]_vars

InitAnchor == AnchorInit /\ HeadingIdle /\ IndexIdle /\ PluginIdle /\ UtilIdle
NextAnchor == GenerateAnchor
SpecAnchor == InitAnchor /\ [][NextAnchor]_vars

\* generateAnchorId with the default options on texts that reach the maximum
\* length: a text is up to MaxBlocks blocks, each one character or a run of
\* letters of about the maximum length
AnchorBlocks ==
  {[c |-> ch, n |-> 1] : ch \in Chars}
    \cup {[c |-> "a", n |-> k] : k \in {DefaultMaxLength - 1, DefaultMaxLength}}

InitAnchorDefault ==
  /\ \E runs \in SeqsUpTo(AnchorBlocks, MaxBlocks) : aText = StrVal(TextOf(runs))
  /\ aOpts = DefaultAnchorOptions
  /\ aOut = NotCalled
  /\ HeadingIdle /\ IndexIdle /\ PluginIdle /\ UtilIdle
NextAnchorDefault == GenerateAnchor
SpecAnchorDefault == InitAnchorDefault /\ [][NextAnchorDefault]_vars

InitHeadings == AnchorIdle /\ HeadingInit /\ IndexIdle /\ PluginIdle /\ UtilIdle
NextHeadings == LoadHtml \/ ProcessHeading \/ FinishExtraction
SpecHeadings == InitHeadings /\ [][NextHeadings]_vars

InitIndex == AnchorIdle /\ HeadingIdle /\ IndexInit /\ PluginIdle /\ UtilIdle
NextIndex == CreateIndex
SpecIndex == InitIndex /\ [][NextIndex]_vars

Init == AnchorIdle /\ HeadingIdle /\ IndexIdle /\ PluginInit /\ UtilIdle
Next ==
  \/ SetupHtml
  \/ SetupBatch
  \/ ProcessFile
  \/ StartBatch
  \/ RunMicrotask
  \/ FinishBatch
  \/ SaveIndex
  \/ CallDone
  \/ CallDoneThrows
  \/ CallDoneError
Spec == Init /\ [][Next]_vars

(***************************************************************************)
(* Properties of the heading extractor (under SpecHeadings).               *)
(***************************************************************************)
\* the trimmed text of element p of the file
TitleOf(p) == Trim(contents[p].text)

\* the callback has run on element p
Visited(p) == hpc \in {"headings", "done"} /\ p < hIdx

\* the place in the heading list of element p, when its title is not empty
ListedAt(p) == Cardinality({q \in 1..p : TitleOf(q) # <<>>})

ListedId(p) == headings[ListedAt(p)].id

\* C1: the ids of the heading list are pairwise distinct, whatever the mix of
\* author-supplied and generated ids and whatever the document order.
C1_HeadingIdsDistinct ==
  \A i, j \in 1..Len(headings) : i # j => headings[i].id # headings[j].id

\* the elements without an id whose title is t
SameTitle(t) == {p \in 1..Len(contents) : contents[p].id = NoId /\ TitleOf(p) = t}

Slug(t) == generateAnchorId(StrVal(t), DefaultAnchorOptions)

\* slug for the first of the group, slug-k for the k-th later one
NumberedId(t, k) ==
  IF k = 0 THEN Slug(t) ELSE Slug(t) \o <<"-">> \o NumberToString(k)

GroupNumbered(t) ==
  \A p \in SameTitle(t) :
    ListedId(p) = NumberedId(t, Cardinality({q \in SameTitle(t) : q < p}))

Titles == {TitleOf(p) : p \in 1..Len(contents)} \ {<<>>}

GroupUndisturbed(t) ==
  \A q \in 1..Len(contents) :
    (/\ q \notin SameTitle(t)
     /\ TitleOf(q) # <<>>
     /\ \E p \in SameTitle(t) : q < p)
    => \A k \in 0..(Cardinality(SameTitle(t)) - 1) : ListedId(q) # NumberedId(t, k)

C3_ContentsCarryGeneratedIds ==
  (hpc = "done" /\ entry.made) =>
    \A p \in 1..Len(contents) :
      (TitleOf(p) # <<>> /\ dom[p].id # NoId) => contents[p].id = entry.headings[ListedAt(p)].id

\* what C4 says of the element p, which carries an id
ExplicitIdKept(p) ==
  /\ dom[p].id = contents[p].id
  /\ TitleOf(p) # <<>>
  /\ ListedId(p) = contents[p].id
  /\ contents[p].id \in usedIds
  /\ \A q \in 1..Len(contents) :
       (Visited(q) /\ q > p /\ contents[q].id = NoId /\ TitleOf(q) # <<>>)
       => ListedId(q) # contents[p].id

\* C4 as stated: every heading that carries an id keeps it, is listed with
\* exactly that id, and the id is recorded as used, so that no id generated
\* later equals it.
C4_ExplicitIdKept ==
  \A p \in 1..Len(contents) :
    (Visited(p) /\ contents[p].id # NoId) => ExplicitIdKept(p)

\* C4 amended: the same, for the headings whose text is not empty (the others
\* are skipped: neither listed nor recorded).
C4_ExplicitIdKeptWhenTitled ==
  \A p \in 1..Len(contents) :
    (Visited(p) /\ contents[p].id # NoId /\ TitleOf(p) # <<>>) => ExplicitIdKept(p)

\* a titled heading with an id was followed by a heading that would have
\* generated the same id
C4_Witness ==
  \E p, q \in 1..Len(contents) :
    /\ Visited(q) /\ p < q
    /\ contents[p].id # NoId /\ TitleOf(p) # <<>>
    /\ contents[q].id = NoId /\ TitleOf(q) # <<>>
    /\ Slug(TitleOf(q)) = contents[p].id

(***************************************************************************)
(* Properties of the anchor id generator (under SpecAnchor).               *)
(***************************************************************************)
IsBlank(s) == \A i \in 1..Len(s) : s[i] \in Whitespace

\* C5: generateAnchorId never returns an empty or whitespace-only string, for
\* every text and every combination of the options.
C5_AnchorNeverBlank ==
  aOut # NotCalled => ~IsBlank(aOut.v)

(***************************************************************************)
(* Properties of the index builder (under SpecIndex).                      *)
(***************************************************************************)
RECURSIVE SumOver(_, _)
SumOver(f, S) ==
  IF S = {} THEN 0
  ELSE LET x == CHOOSE y \in S : TRUE IN f[x] + SumOver(f, S \ {x})

\* C6: every index returned has totalEntries = length of entries =
\* stats.totalEntries, and the counts of stats.entriesByType sum to it.
C6_IndexCountsAgree ==
  ixOut.status = "returned" =>
    LET index == ixOut.index
    IN /\ index.totalEntries = Len(index.entries)
       /\ index.stats.totalEntries = index.totalEntries
       /\ SumOver(index.stats.entriesByType, DOMAIN index.stats.entriesByType)
            = index.totalEntries

\* an index of three entries of two types has been returned
C6_Witness ==
  /\ ixOut.status = "returned"
  /\ Len(ixOut.index.entries) = 3
  /\ Cardinality(DOMAIN ixOut.index.stats.entriesByType) = 2

\* C7: called with an empty list, null or undefined, createSearchIndex returns
\* without raising an index with totalEntries 0, stats.totalEntries 0,
\* averageContentLength 0 and no entries.
C7_EmptyInputGivesEmptyIndex ==
  (ixOut.status # "none" /\ (ixInput.t # "array" \/ ixInput.v = <<>>)) =>
    /\ ixOut.status = "returned"
    /\ ixOut.index.totalEntries = 0
    /\ ixOut.index.stats.totalEntries = 0
    /\ ixOut.index.stats.averageContentLength = 0
    /\ ixOut.index.entries = <<>>

\* createSearchIndex has been called with null
C7_Witness ==
  ixOut.status # "none" /\ ixInput.t = "null"

(***************************************************************************)
(* Properties of the plugin function (under Spec).                         *)
(***************************************************************************)
Elements(q) == {q[i] : i \in 1..Len(q)}

\* the entries that the extraction of file n gives
ExtractedFrom(n) ==
  IF pipeline = "html" THEN htmlExtract(n, files[n]) ELSE batchExtract(n, files[n])

IndexedIds == {indexFile.index.entries[i].id : i \in 1..Len(indexFile.index.entries)}

\* C8: whatever null files, files without a Buffer and files whose extraction
\* throws are among the matched files, the plugin calls done without an error
\* and the written index holds the entries of every other file.
C8_BadFileNeverAborts ==
  pc = "end" =>
    /\ doneCalls = <<"ok">>
    /\ \A n \in Elements(validateFiles(files)) :
         \A k \in 1..Len(ExtractedFrom(n)) : ExtractedFrom(n)[k].id \in IndexedIds

\* the file an entry comes from, and the place of a file in filesToProcess
FileOf(e) == CHOOSE n \in 1..Len(files) : FileUrl(n) = e.url
PlaceOf(n) == CHOOSE i \in 1..Len(filesToProcess) : filesToProcess[i] = n
PlaceIn(e, n) == CHOOSE k \in 1..Len(ExtractedFrom(n)) : ExtractedFrom(n)[k] = e

\* C9: in the batch pipeline the entry list keeps the order of filesToProcess,
\* and the order of the entries of one file, whatever order the extractions
\* complete in.
C9_BatchKeepsDocumentOrder ==
  pipeline = "batch" =>
    \A i, j \in 1..Len(allSearchEntries) :
      i < j =>
        LET a == allSearchEntries[i]
            b == allSearchEntries[j]
        IN /\ PlaceOf(FileOf(a)) <= PlaceOf(FileOf(b))
           /\ FileOf(a) = FileOf(b) => PlaceIn(a, FileOf(a)) < PlaceIn(b, FileOf(b))

\* C10: the index file is assigned at most once, only when the processing of
\* every file to process has finished, and exactly once by the time done is
\* called without an error; when no file matches, the index written then has
\* totalEntries 0.
C10_IndexWrittenOnceAfterAll ==
  /\ indexWrites <= 1
  /\ indexWrites = 1 => Elements(filesToProcess) \subseteq finished
  /\ (indexWrites = 1 /\ pipeline = "html") => Elements(validateFiles(files)) \subseteq finished
  /\ (doneCalls # <<>> /\ Head(doneCalls) = "ok") =>
       /\ indexWrites = 1
       /\ indexFile.status = "returned"
       /\ validateFiles(files) = <<>> => indexFile.index.totalEntries = 0

\* a run over three files that gave entries has called done
C10_Witness ==
  /\ doneCalls = <<"ok">>
  /\ Len(filesToProcess) = 3
  /\ indexFile.index.totalEntries >= 2

(***************************************************************************)
(* Properties of stripHtml (under SpecStrip).                              *)
(***************************************************************************)
\* whether each token of html lies inside a script or style element, as an
\* HTML parser delimits it: from its start tag to its end tag, or to the end
\* of the markup when the element is not closed
RECURSIVE InsideRaw(_, _)
InsideRaw(html, open) ==
  IF html = <<>> THEN <<>>
  ELSE IF open = ""
       THEN <<FALSE>> \o InsideRaw(Tail(html), IF Head(html) \in OpenRaw THEN Head(html) ELSE "")
       ELSE IF Head(html) \in EndTags(open)
            THEN <<FALSE>> \o InsideRaw(Tail(html), "")
            ELSE <<TRUE>> \o InsideRaw(Tail(html), open)

StripReturned == uPc = "returned" /\ uCall.fn = "stripHtml"

\* C11: the text that stripHtml returns never holds the content of a script
\* or style element of its input: when every x of the markup lies inside such
\* an element, the text holds no x.
C11_NoScriptOrStyleContent ==
  StripReturned =>
    ((\A i \in 1..Len(uCall.html) :
        uCall.html[i] = "x" => InsideRaw(uCall.html, "")[i])
     => \A j \in 1..Len(uOut) : uOut[j] # "x")

\* C20: with line breaks preserved, text on the two sides of a block-level
\* boundary (a closing paragraph tag or <br>) comes out separated by a single
\* newline.
C20_BlockBoundaryBecomesNewline ==
  (StripReturned /\ uCall.stripper = "patterns" /\ uCall.config.preserveLineBreaks) =>
    \A i \in 2..(Len(uCall.html) - 1) :
      (/\ uCall.html[i] \in BlockEnds
       /\ uCall.html[i - 1] = "x"
       /\ uCall.html[i + 1] = "x"
       /\ \A k \in 1..Len(uCall.html) : uCall.html[k] \notin OpenRaw)
      => \E j \in 1..(Len(uOut) - 2) :
           uOut[j] = "x" /\ uOut[j + 1] = "\n" /\ uOut[j + 2] = "x"

(***************************************************************************)
(* Properties of the page entry (under SpecPage).                          *)
(***************************************************************************)
PageMade == uPc = "returned" /\ uCall.fn = "extractSearchableContent" /\ uOut.made

\* the URL that the path p.html is to get, p given by its segments
ExpectedUrl(segs) ==
  IF segs = <<"index">> THEN <<"/">>
  ELSE IF segs[Len(segs)] = "index" THEN <<"/">> \o JoinPath(SubSeq(segs, 1, Len(segs) - 1))
  ELSE <<"/">> \o JoinPath(segs)

\* C12: the URL of the entry starts with "/"; index.html gives "/",
\* p/index.html gives "/p", any other p.html gives "/p"; the id of the entry is
\* "page:" followed by the URL.
C12_UrlIsCanonical ==
  PageMade =>
    /\ Head(uOut.url) = "/"
    /\ uOut.url = ExpectedUrl(uCall.segments)
    /\ uOut.id = <<"page:">> \o uOut.url

\* the entry of a nested index file has been made
C12_Witness ==
  PageMade /\ Len(uCall.segments) = 2 /\ uCall.segments[2] = "index"

EndsWithEllipsis(s) ==
  Len(s) >= 3 /\ SubSeq(s, Len(s) - 2, Len(s)) = <<".", ".", ".">>

IndexReturned == ixOut.status = "returned"
IndexEntries == ixOut.index.entries

\* C14: every entry of the index returned has a score field, whose value is 0.
C14_EveryEntryHasScoreZero ==
  IndexReturned =>
    \A i \in 1..Len(IndexEntries) :
      "score" \in IndexEntries[i].keys /\ IndexEntries[i].score = 0

\* the value of property k of the object is null, undefined or the empty string
EmptyValue(obj, k) ==
  CASE k = "type" -> obj.type = ""
    [] k \in {"score", "headings"} -> FALSE
    [] OTHER -> obj[k] = <<>>

\* C15: cleaning drops a field of an entry if and only if its value is null,
\* undefined or the empty string; every other value, numbers included, is kept.
C15_DroppedIffEmpty ==
  IndexReturned =>
    \A i \in 1..Len(IndexEntries) :
      LET optimized == optimizedObject(ixInput.v[i], i - 1)
      IN \A k \in optimized.keys :
           (k \notin IndexEntries[i].keys) <=> EmptyValue(optimized, k)

\* C16: every page entry of the index carries a wordCount, the number of words
\* that the extractor counted in the text of the page.
C16_PageEntryCarriesWordCount ==
  IndexReturned =>
    \A i \in 1..Len(IndexEntries) :
      IndexEntries[i].type = "page" =>
        /\ "wordCount" \in IndexEntries[i].keys
        /\ IndexEntries[i].wordCount = ixInput.v[i].wordCount

(***************************************************************************)
(* Properties of the content segmenter (under SpecSegmenter, SpecChunks).  *)
(***************************************************************************)
SectionsReturned == uPc = "returned" /\ uCall.fn = "extractTraditionalSections"
ChunksReturned == uPc = "returned" /\ uCall.fn = "splitLongContent"

\* C17: the segmenter takes its thresholds from the options: the block is split
\* into chunks exactly when it is longer than options.maxSectionLength, the
\* chunks are built towards options.chunkSize, and a resulting block gives an
\* entry exactly when its trimmed length is at least options.minSectionLength.
C17_ThresholdsFromOptions ==
  SectionsReturned =>
    LET block == Trim(contentOf(uCall.sentences))
        options == uCall.options
        blocks == IF block = <<>> THEN <<>>
                  ELSE IF Len(block) > options.maxSectionLength
                       THEN splitLongContent(block, options.chunkSize)
                       ELSE <<block>>
    IN /\ uOut.sections = blocks
       /\ \A i \in 1..Len(uOut.sections) :
            (\E k \in 1..Len(uOut.entries) : uOut.entries[k].sectionIndex = i - 1)
            <=> Len(Trim(uOut.sections[i])) >= options.minSectionLength

\* the text with every run of white space made one space
Normalized(text) == ReplaceRuns(text, Whitespace, <<" ">>)

RECURSIVE JoinChunks(_)
JoinChunks(chunks) ==
  IF chunks = <<>> THEN <<>>
  ELSE IF Len(chunks) = 1 THEN Head(chunks)
  ELSE Head(chunks) \o <<" ">> \o JoinChunks(Tail(chunks))

\* the end of the last but one sentence of a chunk, 0 when it is one sentence
LastBreak(chunk) ==
  LET breaks == {p \in 1..(Len(chunk) - 1) :
                   chunk[p] \in SentenceEnds /\ chunk[p + 1] \in Whitespace}
  IN IF breaks = {} THEN 0 ELSE CHOOSE p \in breaks : \A q \in breaks : q <= p

\* C18: splitLongContent never cuts inside a sentence (every chunk but the last
\* ends where a sentence ends, and the chunks put together are the content),
\* and a chunk is longer than chunkSize only by its last sentence.
C18_ChunksOfWholeSentences ==
  ChunksReturned =>
    /\ Normalized(JoinChunks(uOut)) = Normalized(Trim(uCall.content))
    /\ \A i \in 1..(Len(uOut) - 1) : uOut[i][Len(uOut[i])] \in SentenceEnds
    /\ \A i \in 1..Len(uOut) :
         Len(uOut[i]) <= uCall.maxLength \/ LastBreak(uOut[i]) <= uCall.maxLength

\* a content of three sentences came out as two chunks, one of two sentences
C18_Witness ==
  /\ ChunksReturned
  /\ Len(splitSentences(uCall.content)) = 3
  /\ Len(uOut) = 2
  /\ \E i \in 1..2 : LastBreak(uOut[i]) > 0

(***************************************************************************)
(* Properties of findNestedField (under SpecField).                        *)
(***************************************************************************)
FieldReturned == uPc = "returned" /\ uCall.fn = "findNestedField"

NoNode == [t |-> "none", v |-> <<>>]

\* the object reached from node by the path, a sequence of property places;
\* a step goes into a plain object only, never into an array
RECURSIVE Reach(_, _)
Reach(node, path) ==
  IF path = <<>> THEN node
  ELSE LET kids == ownValues(node)
       IN IF Head(path) > Len(kids) \/ kids[Head(path)].t # "object" THEN NoNode
          ELSE Reach(kids[Head(path)], Tail(path))

\* the object owns a property named field whose value is a string
HasStringField(node, field, emptyCounts) ==
  /\ node.t = "object"
  /\ \E i \in 1..Len(node.v) :
       /\ node.v[i].key = field
       /\ node.v[i].value.t = "string"
       /\ emptyCounts \/ node.v[i].value.v # <<>>

\* p comes before q in depth-first pre-order
Before(p, q) ==
  \/ Len(p) < Len(q) /\ SubSeq(q, 1, Len(p)) = p
  \/ \E i \in 1..Min(Len(p), Len(q)) :
       p[i] < q[i] /\ SubSeq(p, 1, i - 1) = SubSeq(q, 1, i - 1)

\* the value that the claim names: the property of the object that comes first
\* in pre-order among those that own a string-valued property named field
FirstInPreOrder(obj, field, emptyCounts) ==
  LET found == {p \in SeqsUpTo(1..2, MaxDepth) :
                  Reach(obj, p) # NoNode /\ HasStringField(Reach(obj, p), field, emptyCounts)}
  IN IF ~IsObjectType(obj) \/ found = {} THEN NullVal
     ELSE getProperty(Reach(obj, CHOOSE p \in found : \A q \in found \ {p} : Before(p, q)),
                      field)

\* C19 as stated: the result is the string-valued property named field of obj
\* itself when it owns one, otherwise the first one in depth-first pre-order
\* over the plain objects nested in it, arrays not entered; null when there is
\* none or obj is no object.
C19_FirstStringInPreOrder ==
  FieldReturned => uOut = FirstInPreOrder(uCall.obj, uCall.targetField, TRUE)

\* C19 amended: the same, a property whose value is the empty string being
\* passed over like one that is no string.
C19_FirstNonEmptyStringInPreOrder ==
  FieldReturned => uOut = FirstInPreOrder(uCall.obj, uCall.targetField, FALSE)

\* the field was found two levels down, in the first branch, while a later
\* branch holds it one level down
C19_Witness ==
  /\ FieldReturned
  /\ uCall.targetField = "title"
  /\ uOut = StrVal(<<"a", "a", "title">>)
  /\ Reach(uCall.obj, <<2>>) # NoNode
  /\ HasStringField(Reach(uCall.obj, <<2>>), "title", FALSE)

\* ---------------------------------------------------------------------------
\* stripHtml on text without markup

DefaultStripConfig ==
  [preserveLineBreaks |-> TRUE, cleanWhitespace |-> TRUE, decodeEntities |-> TRUE]

\* text holds no tag and no character reference as HTML reads them: a '<'
\* opens a tag only when a name follows it directly, and an '&' opens a
\* reference only when an entity name follows it directly
NoMarkup(text) ==
  /\ \A i \in 1..Len(text) : text[i] \notin TagTokens \cup {"&amp;"}
  /\ \A i \in 1..(Len(text) - 1) :
       /\ ~(text[i] = "<" /\ text[i + 1] \in WordAtoms)
       /\ ~(text[i] = "&" /\ text[i + 1] \in WordAtoms)

\* C21: for a string that holds no markup, stripHtml with the default options
\* returns the string with its runs of white space collapsed and its ends
\* trimmed, and stripHtml of that result is the result again.
C21_PlainTextOnlyCollapsed ==
  (StripReturned /\ uCall.stripper = "patterns" /\ uCall.config = DefaultStripConfig
     /\ NoMarkup(uCall.html))
    => /\ uOut = Trim(ReplaceRuns(uCall.html, Whitespace, <<" ">>))
       /\ stripHtmlPatterns(uOut, uCall.config) = uOut

\* ---------------------------------------------------------------------------
\* splitContentBySections

SplitReturned == uPc = "returned" /\ uCall.fn = "splitContentBySections"

IsHeadingLine(line) == HeadingStartsOf(line) # {}

\* a block of text with the heading that was seen last before it
BlockUnder(heading, block) ==
  IF Trim(JoinLines(block)) = <<>> THEN <<>>
  ELSE <<[heading |-> heading, content |-> Trim(JoinLines(block))]>>

\* the blocks of text of a document, each with the title of the heading line
\* that was seen last before it, null before the first heading
RECURSIVE BlocksUnderHeadings(_, _, _)
BlocksUnderHeadings(lines, heading, block) ==
  IF lines = <<>> THEN BlockUnder(heading, block)
  ELSE IF IsHeadingLine(Head(lines))
       THEN BlockUnder(heading, block)
              \o BlocksUnderHeadings(Tail(lines), StrVal(headingTitle(Head(lines))), <<>>)
       ELSE BlocksUnderHeadings(Tail(lines), heading, Append(block, Head(lines)))

\* C22: splitContentBySections gives one section for every block of text,
\* with the title of the most recently seen heading, and with no heading for
\* the text before the first heading, also when two headings follow each other.
C22_BlocksUnderLastHeading ==
  SplitReturned => uOut = BlocksUnderHeadings(uCall.lines, NullVal, <<>>)

\* ---------------------------------------------------------------------------
\* the URLs and ids of the entries of a site

\* C23: in the markdown/component extractor the URL of a file starts with
\* '/', a trailing '/index' collapses to the parent path, and the root index
\* file (index.md or index.html) collapses to '/'.
C23_ComponentUrlIsCanonical ==
  (uCall.fn = "build" /\ uCall.pipeline = "batch")
    => \A i \in 1..Len(uOut.done) :
         \A k \in 1..Len(uOut.done[i].entries) :
           /\ Head(uOut.done[i].entries[k].url) = "/"
           /\ uOut.done[i].entries[k].url = ExpectedUrl(uOut.done[i].segments)

\* C26: the ids of the entries of an index built from files with pairwise
\* distinct paths are pairwise distinct.
C26_EntryIdsDistinct ==
  (uCall.fn = "build" /\ uPc = "returned")
    => LET entries == uOut.index.index.entries
       IN \A i, j \in 1..Len(entries) : i # j => entries[i].id # entries[j].id

\* ---------------------------------------------------------------------------
\* findNestedField on cyclic objects

\* C24: findNestedField raises on no input: also on objects that refer back
\* to themselves the call comes to an end and returns a value (null when the
\* field is not found).
C24_NeverRaises ==
  uCall.fn = "findNestedFieldOnGraph" => uPc # "raised"

\* ---------------------------------------------------------------------------
\* deepMerge of the default options and the user options

MergeReturned == uPc = "returned" /\ uCall.fn = "deepMerge"

HasProperty(obj, key) == \E i \in 1..Len(obj.v) : obj.v[i].key = key

\* C25: after deepMerge(defaultOptions, userOptions) every default property
\* exists in the result, pattern and ignore of the result are neither null
\* nor undefined, and the two arguments are as they were before the call.
C25_DefaultsSurviveMerge ==
  MergeReturned =>
    /\ \A i \in 1..Len(defaultOptions.v) : HasProperty(uOut.merged, defaultOptions.v[i].key)
    /\ getProperty(uOut.merged, "pattern").t \notin {"null", "undefined"}
    /\ getProperty(uOut.merged, "ignore").t \notin {"null", "undefined"}
    /\ uOut.target = uCall.target
    /\ uOut.source = uCall.source

\* ---------------------------------------------------------------------------
\* the ids of generateAnchorId with the default options

AnchorSafeChars == (WordChars \ {"A", "_"}) \cup {"-"}

\* C27: with the default options the id has at most 50 characters, holds only
\* lowercase letters, digits and '-', neither starts nor ends with '-', and
\* holds no two '-' in a row.
C27_DefaultIdIsUrlSafe ==
  (aOut # NotCalled /\ aOpts = DefaultAnchorOptions)
    => /\ Len(aOut.v) <= DefaultMaxLength
       /\ \A i \in 1..Len(aOut.v) : aOut.v[i] \in AnchorSafeChars
       /\ aOut.v # <<>>
       /\ aOut.v[1] # "-" /\ aOut.v[Len(aOut.v)] # "-"
       /\ \A i \in 1..(Len(aOut.v) - 1) : ~(aOut.v[i] = "-" /\ aOut.v[i + 1] = "-")

\* a text whose cleaned form is longer than the maximum has been cut, and
\* the separator at the cut has been removed
C27_Witness ==
  /\ aOut # NotCalled /\ aOpts = DefaultAnchorOptions
  /\ aText.t = "string"
  /\ Len(cleanTextForAnchor(aText.v, <<"-">>)) > DefaultMaxLength
  /\ cleanTextForAnchor(aText.v, <<"-">>)[DefaultMaxLength] = "-"
  /\ Len(aOut.v) = DefaultMaxLength - 1

\* ---------------------------------------------------------------------------
\* cleanText of the index builder

\* C28: cleanText is idempotent: cleaning a cleaned text changes nothing.
C28_CleanTextIdempotent ==
  (uPc = "returned" /\ uCall.fn = "cleanText") => cleanText(uOut) = uOut

\* ---------------------------------------------------------------------------
\* the done callback of the plugin function

\* C29: on every path of the plugin function done is called exactly once:
\* never a second time, and once when the function has come to its end.
C29_DoneCalledExactlyOnce ==
  /\ Len(doneCalls) <= 1
  /\ pc = "end" => Len(doneCalls) = 1

\* ---------------------------------------------------------------------------
\* the ids of the sections of one document

SectionIdsReturned == uPc = "returned" /\ uCall.fn = "ensureSectionIDs"

\* the ids that the sections came with are pairwise distinct
GivenIdsDistinct(sections) ==
  \A i, j \in 1..Len(sections) :
    (i # j /\ ~needsId(sections[i]) /\ ~needsId(sections[j]))
      => getProperty(sections[i], "id") # getProperty(sections[j], "id")

\* C30: after ensureSectionIDs every section has an id that is not empty, an
\* id that was present is unchanged, and the ids of distinct sections are
\* pairwise distinct (the ids the sections came with being distinct).
C30_SectionIdsIdentifySections ==
  (SectionIdsReturned /\ GivenIdsDistinct(uCall.sections))
    => /\ \A k \in 1..Len(uOut) : uOut[k].t = "string" /\ uOut[k].v # <<>>
       /\ \A k \in 1..Len(uOut) :
            ~needsId(uCall.sections[k]) => uOut[k] = getProperty(uCall.sections[k], "id")
       /\ \A i, j \in 1..Len(uOut) : i # j => uOut[i] # uOut[j]

=============================================================================
